---- MODULE Spec2Model ----
(***************************************************************************)
(* Model of the Android Media Transfer Tool (amtt) core:                   *)
(*   - TransferManager.transfer_files and _create_batches                  *)
(*     (src/src/amtt/core/transfer.py),                                    *)
(*   - FileSystem.get_file_info / list_files                               *)
(*     (src/src/amtt/core/filesystem.py),                                  *)
(*   - TransferLogger.add_entry (src/src/amtt/core/transfer_log.py),       *)
(*   - DeviceManager.get_connected_devices and its probes                  *)
(*     (src/src/amtt/core/device.py).                                      *)
(*                                                                         *)
(* Specifications:                                                         *)
(*   Spec       one call of transfer_files, step by step                   *)
(*   SpecBatch  _create_batches applied to arbitrary lists, sizes, bounds  *)
(*   SpecDetect one call of get_connected_devices                          *)
(*   SpecDedup  the duplicate removal applied to arbitrary raw lists       *)
(*   SpecSafePath      ConfigManager.is_safe_path on the text of a path    *)
(*   SpecListFiles     FileSystem.list_files on its own                    *)
(*   SpecDuplicate     TransferManager._handle_duplicate, probe by probe   *)
(*   SpecOrganize      TransferManager._get_organized_path                 *)
(*   SpecTransferFile  the single-file transfer with verification          *)
(*   SpecLogger        TransferLogger.add_entry and get_entries            *)
(*   SpecMount         DeviceManager._get_mount_point, method by method    *)
(*   SpecDevice        Device.__init__ and the saved device configuration  *)
(*   SpecLogDays       TransferLogger.add_entry across a change of date    *)
(***************************************************************************)
EXTENDS Integers, Sequences, FiniteSets, TLC

VARIABLES
    \* ---- transfer_files: arguments and BatchConfig
    source_paths,         \* argument source_paths
    delete_source,        \* argument delete_source
    progress_callback,    \* argument progress_callback: "none" | "quiet" | "raising"
    MAX_BATCH_SIZE,       \* BatchConfig.MAX_BATCH_SIZE (set by the CLI)
    MAX_FILES_PER_BATCH,  \* BatchConfig.MAX_FILES_PER_BATCH (set by the CLI)
    \* ---- transfer_files: locals
    pc,                   \* position in transfer_files
    src_idx,              \* index of the expansion loop (line 260)
    available_files,      \* local available_files
    batches,              \* local batches = list(_create_batches(...))
    batch_num,            \* loop index of line 311
    file_num,             \* loop index of line 322
    result,               \* the TransferResult under construction
    outcome,              \* "running" | "returned" | "raised"
    \* ---- environment
    device,               \* paths that exist on the device
    dest,                 \* device paths whose copy reached the destination
    journal,              \* today's journal file
    glitches,             \* transient device failures so far
    \* ---- history (what the environment answered)
    journal0,             \* the journal file when the call started
    expand_log,           \* per source path: the lookup / listing outcome
    plan_info,            \* per available file: the planner's lookup
    copy_log,             \* per processed file: lookup / copy / remove outcome
    \* ---- transfer_files: progress reporting
    total_size,           \* local total_size (line 303)
    progress_events,      \* the TransferProgress objects handed to the callback
    \* ---- get_connected_devices
    det_pc,               \* position in get_connected_devices
    adb_env,              \* what the adb tool does
    gio_env,              \* what the gio tool does
    scan_env,             \* what the mount-point globs return
    probe_results,        \* raw results of the probes that ran, in order
    device_infos,         \* local device_infos (concatenation)
    unique_devices,       \* local unique_devices
    devices,              \* local devices (constructed)
    create_log,           \* per unique device: what its construction met
    det_outcome,          \* "running" | "returned" | "raised_probe" | "raised_none"
    \* ---- one function called on its own
    call_pc,              \* "idle" | "called" | "returned"
    call_args,            \* the arguments and the environment of the call
    call_ret              \* what the call returned or raised

transferVars ==
    << source_paths, delete_source, progress_callback, MAX_BATCH_SIZE,
       MAX_FILES_PER_BATCH, pc, src_idx, available_files, batches, batch_num,
       file_num, result, outcome, device, dest, journal, glitches, journal0,
       expand_log, plan_info, copy_log, total_size, progress_events >>

detectVars ==
    << det_pc, adb_env, gio_env, scan_env, probe_results, device_infos,
       unique_devices, devices, create_log, det_outcome >>

callVars == << call_pc, call_args, call_ret >>

vars == << transferVars, detectVars, callVars >>

-----------------------------------------------------------------------------
(* Bounds of the model *)

\* transient device failures (a lookup or listing that raises although the
\* path is there) injected in one run
MaxGlitch == 1
\* SpecBatch: longest input list, largest file size, largest bounds
MaxLen == 3
MaxSize == 2
MaxBatchBytes == 2
MaxBatchFiles == 2
\* SpecDetect: most lines in the output of `gio mount -l`
MaxGioLines == 3
\* output lines of df that describe a storage unit
MaxDfLines == 2
\* characters appended to a path handed to is_safe_path
MaxTail == 3
\* highest numeric suffix among the names that exist at the destination
MaxCounter == 3
\* bytes of a file handed to the single-file transfer
MaxBytes == 3
\* bytes one read of _calculate_hash returns (BUFFER_SIZE, scaled down)
ReadSize == 2
\* records in a journal file handed to the logger on its own
MaxEntries == 2
\* raw device entries handed to the duplicate removal on its own
MaxInfos == 3

-----------------------------------------------------------------------------
(* Sequence helpers *)

RECURSIVE Flatten(_)
Flatten(ss) == IF ss = << >> THEN << >> ELSE Head(ss) \o Flatten(Tail(ss))

RECURSIVE SumSeq(_)
SumSeq(s) == IF s = << >> THEN 0 ELSE Head(s) + SumSeq(Tail(s))

Last(s) == s[Len(s)]

SeqsUpTo(S, n) == UNION { [1..k -> S] : k \in 0..n }

-----------------------------------------------------------------------------
(* The device's file tree used by the runs *)

CAMERA  == "/Internal shared storage/DCIM/Camera"
F_A     == "/Internal shared storage/DCIM/Camera/a.jpg"
F_B     == "/Internal shared storage/DCIM/Camera/b.mp4"
F_CACHE == "/Internal shared storage/DCIM/Camera/cache_1.jpg"
F_TXT   == "/Internal shared storage/DCIM/Camera/notes.txt"
F_HID   == "/Internal shared storage/DCIM/Camera/.thumb.jpg"
D_SUB   == "/Internal shared storage/DCIM/Camera/sub"
F_C     == "/Internal shared storage/Music/c.mp3"
NOTES   == "/Internal shared storage/Notes"

AllPaths == { CAMERA, F_A, F_B, F_CACHE, F_TXT, F_HID, D_SUB, F_C, NOTES }

\* os.path.isdir
IsDir(p) == p \in { CAMERA, D_SUB, NOTES }

\* os.scandir order of a directory's entries
Children(p) ==
    IF p = CAMERA THEN << F_A, F_B, F_CACHE, F_TXT, F_HID, D_SUB >> ELSE << >>

\* entry.name.startswith(".")
Hidden(p) == p = F_HID

\* st_size of each plain file
Size(p) ==
    CASE p = F_A     -> 1
      [] p = F_B     -> 3
      [] p = F_CACHE -> 1
      [] p = F_C     -> 2
      [] p = F_HID   -> 1
      [] p = F_TXT   -> 1
      [] OTHER       -> 0

\* ConfigManager.is_safe_path on the paths above: NOTES is under no safe
\* root, F_CACHE contains the restricted substring "cache", F_HID has a
\* segment starting with "."
is_safe_path(p) == p \notin { NOTES, F_CACHE, F_HID }

\* FileSystem._get_file_type: FOLDER, a supported media type, or OTHER
FileTypeOf(p) ==
    CASE IsDir(p)                       -> "FOLDER"
      [] p \in { F_A, F_CACHE, F_HID }  -> "IMAGE"
      [] p = F_B                        -> "VIDEO"
      [] p = F_C                        -> "AUDIO"
      [] OTHER                          -> "OTHER"

\* FileSystem._is_media_file
IsMediaFile(p) == FileTypeOf(p) \in { "IMAGE", "VIDEO", "AUDIO" }

\* a lookup that does not verify the safety of the path
InfoAvailable_Unverified(dev, p) ==
    /\ p \in dev
    /\ (FileTypeOf(p) # "FOLDER" => IsMediaFile(p))

\* FileSystem.get_file_info(p) on device state dev: TRUE when it returns,
\* FALSE when it raises FileSystemError for a reason the path itself gives
InfoAvailable(dev, p) ==
    /\ is_safe_path(p)
    /\ p \in dev
    /\ (FileTypeOf(p) # "FOLDER" => IsMediaFile(p))

\* FileSystem.list_files(p) on device state dev: the FileInfo paths returned
list_files(dev, p) ==
    SelectSeq(Children(p),
              LAMBDA c : /\ c \in dev
                         /\ ~Hidden(c)
                         /\ ~(FileTypeOf(c) # "FOLDER" /\ FileTypeOf(c) = "OTHER"))

\* what a lookup of p can answer: the device is a transient transport, so a
\* lookup of a path that is there may still raise (bounded by MaxGlitch)
LookupOutcomes(dev, p) ==
    IF InfoAvailable(dev, p)
    THEN { TRUE } \cup (IF glitches < MaxGlitch THEN { FALSE } ELSE { })
    ELSE { FALSE }

-----------------------------------------------------------------------------
(* TransferManager._create_batches *)

NoBatch == [ yielded |-> << >>, current_batch |-> << >>, current_batch_size |-> 0 ]

\* the count test written with > : a batch may grow to one file too many
ExceedsLimits_CountOffByOne(acc, file_size) ==
    \/ acc.current_batch_size + file_size > MAX_BATCH_SIZE
    \/ Len(acc.current_batch) > MAX_FILES_PER_BATCH

\* the test "adding this file would exceed batch limits"
ExceedsLimits(acc, file_size) ==
    \/ acc.current_batch_size + file_size > MAX_BATCH_SIZE
    \/ Len(acc.current_batch) >= MAX_FILES_PER_BATCH

\* one iteration of the for loop; info = [ok, size] is what get_file_info gave
BatchStep(acc, file_path, info) ==
    IF ~info.ok
    THEN acc
    ELSE LET file_size == info.size IN
         IF file_size > MAX_BATCH_SIZE
         THEN [ yielded |->
                    (IF acc.current_batch # << >>
                     THEN Append(acc.yielded, acc.current_batch)
                     ELSE acc.yielded) \o << << file_path >> >>,
                current_batch |-> << >>,
                current_batch_size |-> 0 ]
         ELSE LET flushed ==
                      IF ExceedsLimits(acc, file_size)
                      THEN [ yielded |-> Append(acc.yielded, acc.current_batch),
                             current_batch |-> << >>,
                             current_batch_size |-> 0 ]
                      ELSE acc
              IN [ flushed EXCEPT !.current_batch = Append(@, file_path),
                                  !.current_batch_size = @ + file_size ]

RECURSIVE BatchLoop(_, _, _, _)
BatchLoop(acc, files, infos, i) ==
    IF i > Len(files)
    THEN acc
    ELSE BatchLoop(BatchStep(acc, files[i], infos[i]), files, infos, i + 1)

\* the loop's end without the trailing yield
FinalFlush_Dropped(acc) == acc.yielded

\* the statement after the loop: yield any remaining files
FinalFlush(acc) ==
    IF acc.current_batch # << >>
    THEN Append(acc.yielded, acc.current_batch)
    ELSE acc.yielded

\* list(self._create_batches(files)) with infos[i] the lookup of files[i]
CreateBatches(files, infos) == FinalFlush(BatchLoop(NoBatch, files, infos, 1))

-----------------------------------------------------------------------------
(* TransferManager.transfer_files: step 1, expansion of the source paths *)

\* the expansion without the "skip folders" test on the listed entries
ExpandStep_KeepsFolders(st, dev, source_path, lookupOk, listOk) ==
    IF ~lookupOk
    THEN [ st EXCEPT !.failed_paths = Append(@, source_path) ]
    ELSE IF FileTypeOf(source_path) = "FOLDER"
         THEN IF ~listOk
              THEN st
              ELSE [ st EXCEPT !.available_files = @ \o list_files(dev, source_path) ]
         ELSE [ st EXCEPT !.available_files = Append(@, source_path) ]

\* one iteration of the loop over source_paths. st = [failed_paths,
\* available_files]; lookupOk / listOk say whether get_file_info(source_path)
\* and list_files(source_path) returned (TRUE) or raised (FALSE)
ExpandStep(st, dev, source_path, lookupOk, listOk) ==
    IF ~lookupOk
    THEN [ st EXCEPT !.failed_paths = Append(@, source_path) ]
    ELSE IF FileTypeOf(source_path) = "FOLDER"
         THEN IF ~listOk
              THEN st
              ELSE [ st EXCEPT !.available_files =
                        @ \o SelectSeq(list_files(dev, source_path),
                                       LAMBDA c : FileTypeOf(c) # "FOLDER") ]
         ELSE [ st EXCEPT !.available_files = Append(@, source_path) ]

-----------------------------------------------------------------------------
(* TransferManager.transfer_files: step 4, one file of one batch *)

\* the size counted before the copy is known to have succeeded
TransferOne_SizeOnFailure(res, source_path, file_size, copyOk, removeOk) ==
    IF copyOk
    THEN [ res EXCEPT !.successful_files = Append(@, source_path),
                      !.total_size = @ + file_size ]
    ELSE [ res EXCEPT !.failed_files = Append(@, source_path),
                      !.total_size = @ + file_size ]

\* os.remove without its own try/except: a failed delete reaches the copy's
\* except clause
TransferOne_RemoveFailureFails(res, source_path, file_size, copyOk, removeOk) ==
    IF copyOk /\ removeOk
    THEN [ res EXCEPT !.successful_files = Append(@, source_path),
                      !.total_size = @ + file_size ]
    ELSE [ res EXCEPT !.failed_files = Append(@, source_path) ]

\* the inner try block: copy, optional delete, result update. copyOk says
\* whether shutil.copy2 returned, removeOk whether os.remove would return
TransferOne(res, source_path, file_size, copyOk, removeOk) ==
    IF copyOk
    THEN [ res EXCEPT !.successful_files = Append(@, source_path),
                      !.total_size = @ + file_size ]
    ELSE [ res EXCEPT !.failed_files = Append(@, source_path) ]

\* os.remove placed after the inner try/except: it runs whether or not the
\* copy succeeded
RemoveSource_AfterFailedCopy(dev, source_path, copyOk, removeOk) ==
    IF delete_source /\ removeOk
    THEN dev \ { source_path }
    ELSE dev

\* the device after the inner try block: os.remove runs only after copy2
\* returned and only when delete_source was requested
RemoveSource(dev, source_path, copyOk, removeOk) ==
    IF copyOk /\ delete_source /\ removeOk
    THEN dev \ { source_path }
    ELSE dev

\* the outer except clause: anything raised outside the inner try block
ProcessingFailed(res, source_path) ==
    [ res EXCEPT !.failed_files = Append(@, source_path) ]

-----------------------------------------------------------------------------
(* TransferLogger *)

AbsentFile  == [ kind |-> "absent",  entries |-> << >> ]
CorruptFile == [ kind |-> "corrupt", entries |-> << >> ]   \* not JSON
NonListFile == [ kind |-> "nonlist", entries |-> << >> ]   \* JSON, not an array
NullFile    == [ kind |-> "null",    entries |-> << >> ]   \* JSON null
ListFile(es) == [ kind |-> "list", entries |-> es ]

\* an entry written by an earlier run
OldEntry ==
    [ source_dir |-> F_C, successful_files |-> << F_C >>, failed_files |-> << >>,
      failed_paths |-> << >>, total_size |-> 2, delete_source |-> FALSE ]

JournalFiles == { AbsentFile, CorruptFile, NonListFile, ListFile(<< OldEntry >>) }

\* TransferLogger._load_logs: the value json.load gives, [] for a missing or
\* undecodable file; io = "read_error" is open()/read() raising
load_logs(j, io) ==
    CASE j.kind = "absent"  -> [ raised |-> FALSE, islist |-> TRUE,  logs |-> << >> ]
      [] io = "read_error"  -> [ raised |-> TRUE,  islist |-> FALSE, logs |-> << >> ]
      [] j.kind = "corrupt" -> [ raised |-> FALSE, islist |-> TRUE,  logs |-> << >> ]
      [] j.kind = "nonlist" -> [ raised |-> FALSE, islist |-> FALSE, logs |-> << >> ]
      [] j.kind = "null"    -> [ raised |-> FALSE, islist |-> FALSE, logs |-> << >> ]
      [] OTHER              -> [ raised |-> FALSE, islist |-> TRUE,  logs |-> j.entries ]

\* TransferLogger._save_logs: open(log_file, 'w') truncates, json.dump writes
save_logs(j, logs, io) ==
    CASE io = "open_error"  -> [ raised |-> TRUE,  journal |-> j ]
      [] io = "write_error" -> [ raised |-> TRUE,  journal |-> CorruptFile ]
      [] OTHER              -> [ raised |-> FALSE, journal |-> ListFile(logs) ]

\* TransferLogger.add_entry: load, append, save; logs.append raises
\* AttributeError when the file held a JSON value that is no array
add_entry(j, entry, io) ==
    LET loaded == load_logs(j, io) IN
    IF loaded.raised \/ ~loaded.islist
    THEN [ raised |-> TRUE, journal |-> j ]
    ELSE save_logs(j, Append(loaded.logs, entry), io)

IoOutcomes == { "ok", "read_error", "open_error", "write_error" }

\* the empty run's entry with every list written empty
EmptyLogEntry_NoFailedPaths(res) ==
    [ source_dir |-> IF source_paths # << >> THEN source_paths[1] ELSE "",
      successful_files |-> << >>, failed_files |-> << >>,
      failed_paths |-> << >>, total_size |-> 0,
      delete_source |-> delete_source ]

\* the TransferLogEntry built on the empty run
EmptyLogEntry(res) ==
    [ source_dir |-> IF source_paths # << >> THEN source_paths[1] ELSE "",
      successful_files |-> << >>, failed_files |-> << >>,
      failed_paths |-> res.failed_paths, total_size |-> 0,
      delete_source |-> delete_source ]

\* the TransferLogEntry built after the batches
ResultLogEntry(res) ==
    [ source_dir |-> IF source_paths # << >> THEN source_paths[1] ELSE "",
      successful_files |-> res.successful_files, failed_files |-> res.failed_files,
      failed_paths |-> res.failed_paths, total_size |-> res.total_size,
      delete_source |-> delete_source ]

-----------------------------------------------------------------------------
(* Actions of one transfer_files call *)

Roots == { CAMERA, F_C, NOTES }

\* the lists of source paths a caller passes: up to two roots, repeats allowed
SourceLists ==
    { << >> } \cup { << a >> : a \in Roots } \cup { << a, b >> : a, b \in Roots }

\* BatchConfig as the command line sets it: tight bounds, loose bounds, zeros
BatchConfigs ==
    { [ size |-> 2, files |-> 2 ], [ size |-> 4, files |-> 50 ],
      [ size |-> 0, files |-> 0 ] }

EmptyResult ==
    [ successful_files |-> << >>, failed_files |-> << >>, failed_paths |-> << >>,
      total_size |-> 0 ]

DetectIdle ==
    /\ det_pc = "idle"
    /\ adb_env = "none"
    /\ gio_env = "none"
    /\ scan_env = << >>
    /\ probe_results = << >>
    /\ device_infos = << >>
    /\ unique_devices = << >>
    /\ devices = << >>
    /\ create_log = << >>
    /\ det_outcome = "running"

CallIdle ==
    /\ call_pc = "idle"
    /\ call_args = << >>
    /\ call_ret = << >>

Init ==
    /\ source_paths \in SourceLists
    /\ delete_source \in BOOLEAN
    /\ progress_callback \in { "none", "quiet", "raising" }
    /\ \E c \in BatchConfigs :
          /\ MAX_BATCH_SIZE = c.size
          /\ MAX_FILES_PER_BATCH = c.files
    /\ pc = "expand"
    /\ src_idx = 1
    /\ available_files = << >>
    /\ batches = << >>
    /\ batch_num = 1
    /\ file_num = 1
    /\ result = EmptyResult
    /\ outcome = "running"
    /\ device = AllPaths
    /\ dest = { }
    /\ journal \in JournalFiles
    /\ journal0 = journal
    /\ glitches = 0
    /\ expand_log = << >>
    /\ plan_info = << >>
    /\ copy_log = << >>
    /\ total_size = 0
    /\ progress_events = << >>
    /\ DetectIdle
    /\ CallIdle

\* lines 260-281, one source path
ExpandSource ==
    /\ pc = "expand"
    /\ src_idx <= Len(source_paths)
    /\ LET source_path == source_paths[src_idx] IN
       \E lookupOk \in LookupOutcomes(device, source_path) :
       \E listOk \in IF lookupOk /\ FileTypeOf(source_path) = "FOLDER"
                     THEN { TRUE } \cup (IF glitches < MaxGlitch THEN { FALSE } ELSE { })
                     ELSE { TRUE } :
          LET st == ExpandStep([ failed_paths |-> result.failed_paths,
                                 available_files |-> available_files ],
                               device, source_path, lookupOk, listOk)
              glitch == \/ (InfoAvailable(device, source_path) /\ ~lookupOk)
                        \/ ~listOk
          IN /\ result' = [ result EXCEPT !.failed_paths = st.failed_paths ]
             /\ available_files' = st.available_files
             /\ expand_log' = Append(expand_log,
                    [ path |-> source_path, lookupOk |-> lookupOk, listOk |-> listOk ])
             /\ glitches' = IF glitch THEN glitches + 1 ELSE glitches
    /\ src_idx' = src_idx + 1
    /\ UNCHANGED << source_paths, delete_source, progress_callback, MAX_BATCH_SIZE,
                    MAX_FILES_PER_BATCH, pc, batches, batch_num, file_num, outcome,
                    device, dest, journal, journal0, plan_info, copy_log >>
    /\ UNCHANGED << total_size, progress_events, detectVars, callVars >>

\* line 283: the loop is over; an empty file set takes the early return
ExpandDone ==
    /\ pc = "expand"
    /\ src_idx > Len(source_paths)
    /\ pc' = IF available_files = << >> THEN "log_empty" ELSE "total"
    /\ UNCHANGED << source_paths, delete_source, progress_callback, MAX_BATCH_SIZE,
                    MAX_FILES_PER_BATCH, src_idx, available_files, batches, batch_num,
                    file_num, result, outcome, device, dest, journal, glitches,
                    journal0, expand_log, plan_info, copy_log >>
    /\ UNCHANGED << total_size, progress_events, detectVars, callVars >>

\* the lookups the planner can get for files: one info per position
PlanInfos(dev, files) ==
    { [ i \in 1..Len(files) |->
          IF InfoAvailable(dev, files[i]) /\ i \notin g
          THEN [ ok |-> TRUE, size |-> Size(files[i]) ]
          ELSE [ ok |-> FALSE, size |-> 0 ] ] :
      g \in { h \in SUBSET { i \in 1..Len(files) : InfoAvailable(dev, files[i]) } :
                Cardinality(h) <= MaxGlitch - glitches } }

\* the transient failures among infos
GlitchCount(dev, files, infos) ==
    Cardinality({ i \in 1..Len(files) : InfoAvailable(dev, files[i]) /\ ~infos[i].ok })

\* _get_total_size: the sizes of the files whose lookup returns, summed
get_total_size(infos) == SumSeq([ i \in 1..Len(infos) |-> infos[i].size ])

\* line 303
GetTotalSize ==
    /\ pc = "total"
    /\ \E infos \in PlanInfos(device, available_files) :
          /\ total_size' = get_total_size(infos)
          /\ glitches' = glitches + GlitchCount(device, available_files, infos)
    /\ pc' = "plan"
    /\ UNCHANGED << source_paths, delete_source, progress_callback, MAX_BATCH_SIZE,
                    MAX_FILES_PER_BATCH, src_idx, available_files, batches, batch_num,
                    file_num, result, outcome, device, dest, journal, journal0,
                    expand_log, plan_info, copy_log, progress_events >>
    /\ UNCHANGED << detectVars, callVars >>

\* line 307
PlanBatches ==
    /\ pc = "plan"
    /\ \E infos \in PlanInfos(device, available_files) :
          /\ plan_info' = infos
          /\ batches' = CreateBatches(available_files, infos)
          /\ glitches' = glitches + GlitchCount(device, available_files, infos)
    /\ pc' = IF batches' = << >> THEN "log" ELSE "copy"
    /\ batch_num' = 1
    /\ file_num' = 1
    /\ UNCHANGED << source_paths, delete_source, progress_callback, MAX_BATCH_SIZE,
                    MAX_FILES_PER_BATCH, src_idx, available_files, result, outcome,
                    device, dest, journal, journal0, expand_log, copy_log >>
    /\ UNCHANGED << total_size, progress_events, detectVars, callVars >>

\* lines 322-359 and 375-377, one file: the lookup and the destination
\* directory come first (a failure goes to the outer except, no progress
\* event), then the inner try block
ProcessFile ==
    /\ pc = "copy"
    /\ batch_num <= Len(batches)
    /\ file_num <= Len(batches[batch_num])
    /\ LET source_path == batches[batch_num][file_num] IN
       \E infoOk \in LookupOutcomes(device, source_path) :
       \E copyOk \in IF infoOk THEN BOOLEAN ELSE { FALSE } :
       \E removeOk \in IF copyOk /\ delete_source THEN BOOLEAN ELSE { TRUE } :
          /\ result' = IF infoOk
                       THEN TransferOne(result, source_path, Size(source_path),
                                        copyOk, removeOk)
                       ELSE ProcessingFailed(result, source_path)
          /\ device' = IF infoOk
                       THEN RemoveSource(device, source_path, copyOk, removeOk)
                       ELSE device
          /\ dest' = IF infoOk /\ copyOk THEN dest \cup { source_path } ELSE dest
          /\ copy_log' = Append(copy_log,
                 [ path |-> source_path, infoOk |-> infoOk, copyOk |-> copyOk,
                   removeOk |-> removeOk ])
          /\ glitches' = IF InfoAvailable(device, source_path) /\ ~infoOk
                         THEN glitches + 1 ELSE glitches
          /\ pc' = IF infoOk THEN "progress" ELSE "copy"
          /\ file_num' = IF infoOk THEN file_num ELSE file_num + 1
    /\ UNCHANGED << source_paths, delete_source, progress_callback, MAX_BATCH_SIZE,
                    MAX_FILES_PER_BATCH, src_idx, available_files, batches, batch_num,
                    outcome, journal, journal0, expand_log, plan_info >>
    /\ UNCHANGED << total_size, progress_events, detectVars, callVars >>

\* the TransferProgress built at lines 363-373
TransferProgress(source_path, res, total, current_batch, total_batches) ==
    [ current_file |-> source_path, current_size |-> res.total_size,
      total_size |-> total, current_batch |-> current_batch,
      total_batches |-> total_batches, successful_files |-> res.successful_files,
      failed_files |-> res.failed_files ]

\* lines 361-377: the progress event of the file just handled; a callback
\* that raises lands in the outer except clause
ReportProgress ==
    /\ pc = "progress"
    /\ progress_events' =
           IF progress_callback = "none"
           THEN progress_events
           ELSE Append(progress_events,
                       TransferProgress(batches[batch_num][file_num], result, total_size,
                                        batch_num, Len(batches)))
    /\ result' = IF progress_callback = "raising"
                 THEN ProcessingFailed(result, batches[batch_num][file_num])
                 ELSE result
    /\ pc' = "copy"
    /\ file_num' = file_num + 1
    /\ UNCHANGED << source_paths, delete_source, progress_callback, MAX_BATCH_SIZE,
                    MAX_FILES_PER_BATCH, src_idx, available_files, batches, batch_num,
                    outcome, device, dest, journal, glitches, journal0, expand_log,
                    plan_info, copy_log, total_size >>
    /\ UNCHANGED << detectVars, callVars >>

\* lines 379-382: a batch is over (the delay separates it from the next one)
NextBatch ==
    /\ pc = "copy"
    /\ batch_num <= Len(batches)
    /\ file_num > Len(batches[batch_num])
    /\ batch_num' = batch_num + 1
    /\ file_num' = 1
    /\ pc' = IF batch_num < Len(batches) THEN "copy" ELSE "log"
    /\ UNCHANGED << source_paths, delete_source, progress_callback, MAX_BATCH_SIZE,
                    MAX_FILES_PER_BATCH, src_idx, available_files, batches, result,
                    outcome, device, dest, journal, glitches, journal0, expand_log,
                    plan_info, copy_log >>
    /\ UNCHANGED << total_size, progress_events, detectVars, callVars >>

\* lines 283-301: the empty run logs and returns
LogEmpty ==
    /\ pc = "log_empty"
    /\ \E io \in IoOutcomes :
          LET r == add_entry(journal, EmptyLogEntry(result), io) IN
          /\ journal' = r.journal
          /\ outcome' = IF r.raised THEN "raised" ELSE "returned"
    /\ pc' = "done"
    /\ UNCHANGED << source_paths, delete_source, progress_callback, MAX_BATCH_SIZE,
                    MAX_FILES_PER_BATCH, src_idx, available_files, batches, batch_num,
                    file_num, result, device, dest, glitches, journal0, expand_log,
                    plan_info, copy_log >>
    /\ UNCHANGED << total_size, progress_events, detectVars, callVars >>

\* lines 384-427: the run logs and returns
LogResult ==
    /\ pc = "log"
    /\ \E io \in IoOutcomes :
          LET r == add_entry(journal, ResultLogEntry(result), io) IN
          /\ journal' = r.journal
          /\ outcome' = IF r.raised THEN "raised" ELSE "returned"
    /\ pc' = "done"
    /\ UNCHANGED << source_paths, delete_source, progress_callback, MAX_BATCH_SIZE,
                    MAX_FILES_PER_BATCH, src_idx, available_files, batches, batch_num,
                    file_num, result, device, dest, glitches, journal0, expand_log,
                    plan_info, copy_log >>
    /\ UNCHANGED << total_size, progress_events, detectVars, callVars >>

Next ==
    \/ ExpandSource
    \/ ExpandDone
    \/ GetTotalSize
    \/ PlanBatches
    \/ ProcessFile
    \/ ReportProgress
    \/ NextBatch
    \/ LogEmpty
    \/ LogResult

Spec == Init /\ [][Next]_vars

-----------------------------------------------------------------------------
(* _create_batches on its own: any list, any lookups, any bounds *)

PathNames == { F_A, F_B }

InfoValues ==
    { [ ok |-> FALSE, size |-> 0 ] } \cup { [ ok |-> TRUE, size |-> n ] : n \in 0..MaxSize }

TransferIdle ==
    /\ source_paths = << >>
    /\ delete_source = FALSE
    /\ progress_callback = "none"
    /\ src_idx = 1
    /\ batch_num = 1
    /\ file_num = 1
    /\ result = EmptyResult
    /\ outcome = "running"
    /\ device = AllPaths
    /\ dest = { }
    /\ journal = AbsentFile
    /\ journal0 = AbsentFile
    /\ glitches = 0
    /\ expand_log = << >>
    /\ copy_log = << >>
    /\ total_size = 0
    /\ progress_events = << >>

InitBatch ==
    /\ available_files \in SeqsUpTo(PathNames, MaxLen)
    /\ plan_info \in [ 1..Len(available_files) -> InfoValues ]
    /\ MAX_BATCH_SIZE \in 0..MaxBatchBytes
    /\ MAX_FILES_PER_BATCH \in 0..MaxBatchFiles
    /\ batches = << >>
    /\ pc = "batch_input"
    /\ TransferIdle
    /\ DetectIdle
    /\ CallIdle

RunCreateBatches ==
    /\ pc = "batch_input"
    /\ batches' = CreateBatches(available_files, plan_info)
    /\ pc' = "batch_done"
    /\ UNCHANGED << source_paths, delete_source, progress_callback, MAX_BATCH_SIZE,
                    MAX_FILES_PER_BATCH, src_idx, available_files, batch_num, file_num,
                    result, outcome, device, dest, journal, glitches, journal0,
                    expand_log, plan_info, copy_log >>
    /\ UNCHANGED << total_size, progress_events, detectVars, callVars >>

NextBatchOnly == RunCreateBatches

SpecBatch == InitBatch /\ [][NextBatchOnly]_vars

-----------------------------------------------------------------------------
(* Claims about _create_batches *)

\* the positions of files whose lookup returned, in input order
OkPositions(infos) ==
    SelectSeq([ i \in 1..Len(infos) |-> i ], LAMBDA i : infos[i].ok)

\* the input list without the paths whose lookup failed
Planned(files, infos) ==
    [ j \in 1..Len(OkPositions(infos)) |-> files[OkPositions(infos)[j]] ]

\* the number of paths in the batches before batch k
BatchOffset(bs, k) == SumSeq([ j \in 1..(k - 1) |-> Len(bs[j]) ])

\* the sizes of the paths of batch k, each taken from its own lookup
BatchSizes(bs, k, infos) ==
    [ j \in 1..Len(bs[k]) |-> infos[OkPositions(infos)[BatchOffset(bs, k) + j]].size ]

C3_BatchesPartitionInput ==
    pc = "batch_done" => Flatten(batches) = Planned(available_files, plan_info)

\* a plan of three files whose second lookup failed, the third file being
\* left in the last, partial batch after an earlier batch was flushed
C3_Witness ==
    /\ pc = "batch_done"
    /\ Len(available_files) = 3
    /\ plan_info[1].ok /\ ~plan_info[2].ok /\ plan_info[3].ok
    /\ Len(batches) = 2
    /\ batches[2] = << available_files[3] >>
    /\ plan_info[3].size <= MAX_BATCH_SIZE

-----------------------------------------------------------------------------
(* Claims about transfer_files *)

PathsOf(log) == [ i \in 1..Len(log) |-> log[i].path ]

SizesOf(files) == [ i \in 1..Len(files) |-> Size(files[i]) ]

InSeq(x, s) == \E i \in 1..Len(s) : s[i] = x

\* every file of every batch was handled, in order; the files whose copy
\* returned are in the destination and are successful_files, in order; every
\* file whose lookup or copy raised is in failed_files
FailureIsolated ==
    /\ PathsOf(copy_log) = Flatten(batches)
    /\ result.successful_files =
           PathsOf(SelectSeq(copy_log, LAMBDA e : e.infoOk /\ e.copyOk))
    /\ \A i \in 1..Len(copy_log) :
          IF copy_log[i].infoOk /\ copy_log[i].copyOk
          THEN copy_log[i].path \in dest
          ELSE InSeq(copy_log[i].path, result.failed_files)

\* C1: whatever files' copies raise, each of them is in failed_files, every
\* other file of every batch is copied and in successful_files, and the call
\* returns a TransferResult instead of raising.
C1_CopyFailuresIsolatedAndReturns ==
    pc = "done" => FailureIsolated /\ outcome = "returned"

\* the part of C1 that the code keeps: the per-file isolation, whether the
\* call then returns or not
C1_IsolationOnly == pc \in { "log", "done" } => FailureIsolated

\* C4: total_size is the sum of the sizes of the files in successful_files, at
\* every point of the run and in the result returned.
C4_TotalSizeIsSumOfSuccessful ==
    result.total_size = SumSeq(SizesOf(result.successful_files))

\* a returned run with two files copied and one failed
C4_Witness ==
    /\ pc = "done"
    /\ outcome = "returned"
    /\ Len(result.successful_files) = 2
    /\ Len(result.failed_files) = 1
    /\ result.total_size = 4

\* the entries a journal file counts for: none when missing or undecodable
PriorEntries(j) == IF j.kind = "list" THEN j.entries ELSE << >>

\* the journal is the earlier entries followed by one entry that agrees with
\* the TransferResult
OneEntryAppended ==
    /\ journal.kind = "list"
    /\ Len(journal.entries) = Len(PriorEntries(journal0)) + 1
    /\ SubSeq(journal.entries, 1, Len(PriorEntries(journal0))) = PriorEntries(journal0)
    /\ LET e == Last(journal.entries) IN
          /\ e.successful_files = result.successful_files
          /\ e.failed_files = result.failed_files
          /\ e.failed_paths = result.failed_paths
          /\ e.total_size = result.total_size

\* C5 as stated: a call that returns has appended exactly one entry that
\* agrees with the result, all four fields being empty / zero in the empty run.
C5_OneEntryAllEmptyInEmptyRun ==
    (pc = "done" /\ outcome = "returned") =>
        /\ OneEntryAppended
        /\ available_files = << >> =>
              /\ result.successful_files = << >>
              /\ result.failed_files = << >>
              /\ result.failed_paths = << >>
              /\ result.total_size = 0

\* C5 amended: a call that returns has appended exactly one entry that agrees
\* with the result; in the empty run successful_files and failed_files are
\* empty and total_size is zero, while failed_paths holds the inaccessible
\* source paths.
C5_OneEntryPerReturnedCall ==
    (pc = "done" /\ outcome = "returned") =>
        /\ OneEntryAppended
        /\ available_files = << >> =>
              /\ result.successful_files = << >>
              /\ result.failed_files = << >>
              /\ result.total_size = 0

\* a returned empty run with an inaccessible source path, logged after an
\* earlier entry
C5_Witness ==
    /\ pc = "done"
    /\ outcome = "returned"
    /\ available_files = << >>
    /\ result.failed_paths = << NOTES >>
    /\ journal0 = ListFile(<< OldEntry >>)
    /\ Len(journal.entries) = 2

\* C6: a failure to persist the entry is swallowed: the call still returns
\* its TransferResult.
C6_LogFailureSwallowed == pc = "done" => outcome = "returned"

\* C7: a source file leaves the device only in a step of transfer_files that
\* was asked to delete and whose copy of that same file returned.
C7_DeleteOnlyAfterCopy ==
    [][ device' # device =>
          /\ delete_source
          /\ Len(copy_log') = Len(copy_log) + 1
          /\ LET e == Last(copy_log') IN
                /\ e.infoOk /\ e.copyOk /\ e.removeOk
                /\ e.path \in dest'
                /\ device' = device \ { e.path } ]_vars

\* one file was copied and deleted, another one's copy failed and it is
\* still on the device
C7_Witness ==
    /\ delete_source
    /\ F_A \notin device
    /\ F_A \in dest
    /\ \E i \in 1..Len(copy_log) :
          /\ copy_log[i].path = F_B
          /\ copy_log[i].infoOk
          /\ ~copy_log[i].copyOk
    /\ F_B \in device
    /\ F_B \notin dest

\* C8: when the copy returned and the delete raised, the file is appended to
\* successful_files with its size added to total_size, failed_files is left
\* alone, the file stays on the device and the run goes on to the progress
\* event and the next file.
C8_DeleteFailureStillSuccess ==
    [][ ( /\ pc = "copy"
          /\ Len(copy_log') = Len(copy_log) + 1
          /\ delete_source
          /\ Last(copy_log').infoOk
          /\ Last(copy_log').copyOk
          /\ ~Last(copy_log').removeOk )
        => LET p == Last(copy_log').path IN
              /\ result'.successful_files = Append(result.successful_files, p)
              /\ result'.total_size = result.total_size + Size(p)
              /\ result'.failed_files = result.failed_files
              /\ device' = device
              /\ pc' = "progress" ]_vars

\* a file whose delete failed is successful and still on the device, and a
\* later file was handled after it
C8_Witness ==
    /\ delete_source
    /\ \E i \in 1..Len(copy_log) :
          /\ copy_log[i].copyOk
          /\ ~copy_log[i].removeOk
          /\ InSeq(copy_log[i].path, result.successful_files)
          /\ copy_log[i].path \in device
          /\ i < Len(copy_log)

\* the non-folder children of a folder
NonFolderChildren(p) == SelectSeq(Children(p), LAMBDA c : ~IsDir(c))

\* the non-folder entries list_files returns: the children that are visible
\* media files
VisibleMediaChildren(p) ==
    SelectSeq(Children(p), LAMBDA c : ~IsDir(c) /\ ~Hidden(c) /\ IsMediaFile(c))

\* C9 as stated: a source path whose lookup or listing failed is in
\* failed_paths, a folder gives its non-folder children, a plain file itself.
C9_InaccessibleRecordedAsStated ==
    /\ result.failed_paths =
           PathsOf(SelectSeq(expand_log, LAMBDA e : ~e.lookupOk \/ ~e.listOk))
    /\ available_files =
           Flatten([ i \in 1..Len(expand_log) |->
               LET e == expand_log[i] IN
               IF ~e.lookupOk \/ ~e.listOk THEN << >>
               ELSE IF IsDir(e.path) THEN NonFolderChildren(e.path)
               ELSE << e.path >> ])

\* C9 amended: a source path whose metadata lookup failed is in failed_paths;
\* a folder whose listing failed is skipped without being recorded; a folder
\* whose listing returned gives the non-folder entries of the listing (its
\* visible media files); a plain file gives itself; every source path is
\* expanded whatever happened to the ones before it.
C9_ExpansionOfSources ==
    /\ result.failed_paths = PathsOf(SelectSeq(expand_log, LAMBDA e : ~e.lookupOk))
    /\ available_files =
           Flatten([ i \in 1..Len(expand_log) |->
               LET e == expand_log[i] IN
               IF ~e.lookupOk \/ ~e.listOk THEN << >>
               ELSE IF IsDir(e.path) THEN VisibleMediaChildren(e.path)
               ELSE << e.path >> ])
    /\ PathsOf(expand_log) = SubSeq(source_paths, 1, Len(expand_log))
    /\ pc # "expand" => Len(expand_log) = Len(source_paths)

\* an inaccessible path first, then a folder that was still expanded
C9_Witness ==
    /\ pc = "plan"
    /\ source_paths = << NOTES, CAMERA >>
    /\ result.failed_paths = << NOTES >>
    /\ available_files = << F_A, F_B, F_CACHE >>

-----------------------------------------------------------------------------
(* DeviceManager: the probes *)

\* a Python dict: a function from the keys present
EmptyDict == [ k \in { } |-> "" ]

Put(d, k, v) == [ q \in (DOMAIN d) \cup { k } |-> IF q = k THEN v ELSE d[q] ]

Has(d, k) == k \in DOMAIN d

\* how running a tool ends: FileNotFoundError, CalledProcessError, or output
RunOutcomes == { "absent", "exit_nonzero", "ok" }

\* `adb devices -l` after the header: a serial with its state, and how the
\* getprop call for the model ends
AdbLines ==
    { [ serial |-> "ABC", state |-> "device",  getprop |-> "ok" ],
      [ serial |-> "ABC", state |-> "device",  getprop |-> "exit_nonzero" ],
      [ serial |-> "ABC", state |-> "offline", getprop |-> "ok" ] }

AdbEnvs ==
    { [ run |-> r, lines |-> << >> ] : r \in RunOutcomes }
        \cup { [ run |-> "ok", lines |-> << l >> ] : l \in AdbLines }

\* ro.product.model of a device
AdbModel(serial) == "Pixel 7"

\* the body of the loop over adb's lines
AdbLine(found, line) ==
    IF line.state = "device" /\ line.getprop = "ok"
    THEN Append(found,
                [ type |-> "adb", name |-> AdbModel(line.serial),
                  serial |-> line.serial, transport |-> "adb" ])
    ELSE found

RECURSIVE AdbLoop(_, _, _)
AdbLoop(found, lines, i) ==
    IF i > Len(lines) THEN found ELSE AdbLoop(AdbLine(found, lines[i]), lines, i + 1)

\* DeviceManager._try_adb_devices: [raised, devices]
try_adb_devices(env) ==
    CASE env.run \in { "absent", "exit_nonzero" } -> [ raised |-> FALSE, devices |-> << >> ]
      [] OTHER -> [ raised |-> FALSE, devices |-> AdbLoop(<< >>, env.lines, 1) ]

\* the lines `gio mount -l` can print, stripped:
\*   blank        an empty line
\*   volume       "Volume(0): <name>"
\*   volume_bare  "Volume(0)" with no colon
\*   type_mtp     a line holding "Type:" and "MTP"
\*   mount        "Mount(0): <name> -> mtp://<serial>/"
\*   other        any other line
GioLines ==
    { [ kind |-> "blank",       name |-> "",      serial |-> "" ],
      [ kind |-> "volume",      name |-> "Pixel", serial |-> "" ],
      [ kind |-> "volume",      name |-> "ABC",   serial |-> "" ],
      [ kind |-> "volume_bare", name |-> "",      serial |-> "" ],
      [ kind |-> "type_mtp",    name |-> "",      serial |-> "" ],
      [ kind |-> "mount",       name |-> "Pixel", serial |-> "ABC" ],
      [ kind |-> "other",       name |-> "",      serial |-> "" ] }

GioEnvs ==
    { [ run |-> r, lines |-> << >> ] : r \in RunOutcomes \ { "ok" } }
        \cup { [ run |-> "ok", lines |-> ls ] : ls \in SeqsUpTo(GioLines, MaxGioLines) }

\* the mtp:// URL of a Mount line
MtpUrl(serial) ==
    CASE serial = "ABC" -> "mtp://ABC/"
      [] serial = "XYZ" -> "mtp://XYZ/"
      [] OTHER -> "mtp:///"

\* the body of the loop over gio's lines; gs = [devices, current_device,
\* raised]. line.split(":", 1)[1] raises IndexError on a Volume line that has
\* no colon
GioLine(gs, line) ==
    IF gs.raised
    THEN gs
    ELSE CASE line.kind = "blank" ->
                  IF gs.current_device # EmptyDict
                  THEN [ gs EXCEPT !.devices = Append(@, gs.current_device),
                                   !.current_device = EmptyDict ]
                  ELSE gs
           [] line.kind = "volume_bare" -> [ gs EXCEPT !.raised = TRUE ]
           [] line.kind = "volume" ->
                  [ gs EXCEPT !.current_device = Put(EmptyDict, "name", line.name) ]
           [] line.kind = "type_mtp" ->
                  [ gs EXCEPT !.current_device = Put(@, "type", "mtp") ]
           [] line.kind = "mount" ->
                  [ gs EXCEPT !.current_device =
                        Put(Put(Put(@, "mount_point", MtpUrl(line.serial)),
                                "serial", line.serial),
                            "transport", "mtp") ]
           [] OTHER -> gs

RECURSIVE GioLoop(_, _, _)
GioLoop(gs, lines, i) ==
    IF i > Len(lines) THEN gs ELSE GioLoop(GioLine(gs, lines[i]), lines, i + 1)

\* the name clean-up of a valid device: the serial is cut out of the name
CleanName(name, serial) == IF name = serial THEN "" ELSE name

\* the filter "type is mtp and mount_point present"; device["name"] raises
\* KeyError when no Volume line came before the Mount line
GioFilter(fs, d) ==
    IF fs.raised
    THEN fs
    ELSE IF Has(d, "type") /\ d["type"] = "mtp" /\ Has(d, "mount_point")
         THEN IF ~Has(d, "name")
              THEN [ fs EXCEPT !.raised = TRUE ]
              ELSE [ fs EXCEPT !.devices =
                        Append(@, Put(d, "name", CleanName(d["name"], d["serial"]))) ]
         ELSE fs

RECURSIVE GioFilterLoop(_, _, _)
GioFilterLoop(fs, ds, i) ==
    IF i > Len(ds) THEN fs ELSE GioFilterLoop(GioFilter(fs, ds[i]), ds, i + 1)

\* the parse of gio's output: the loop, the trailing device, the filter
GioParse(lines) ==
    LET gs  == GioLoop([ devices |-> << >>, current_device |-> EmptyDict,
                         raised |-> FALSE ], lines, 1)
        all == IF gs.current_device # EmptyDict
               THEN Append(gs.devices, gs.current_device)
               ELSE gs.devices
    IN IF gs.raised
       THEN [ raised |-> TRUE, devices |-> << >> ]
       ELSE GioFilterLoop([ raised |-> FALSE, devices |-> << >> ], all, 1)

\* DeviceManager._try_gio_mount: [raised, devices]; only CalledProcessError
\* and FileNotFoundError are caught
try_gio_mount(env) ==
    CASE env.run \in { "absent", "exit_nonzero" } -> [ raised |-> FALSE, devices |-> << >> ]
      [] OTHER -> GioParse(env.lines)

\* the basenames the globs over the common mount points match
ScanEnvs == { << >>, << "mtp:host=ABC" >>, << "mtp:host=XYZ" >>, << "mtp:" >> }

\* the clean-up of a basename: "mtp:" and "host=" cut from its start
ScanName(basename) ==
    CASE basename = "mtp:host=ABC" -> "ABC"
      [] basename = "mtp:host=XYZ" -> "XYZ"
      [] OTHER -> ""

\* DeviceManager._try_find_mount_point
try_find_mount_point(env) ==
    [ i \in 1..Len(env) |->
        [ type |-> "mtp", name |-> ScanName(env[i]),
          mount_point |-> MtpUrl(ScanName(env[i])),
          serial |-> ScanName(env[i]), transport |-> "mtp" ] ]

-----------------------------------------------------------------------------
(* DeviceManager.get_connected_devices *)

\* the serial clean-up of the duplicate removal
NormalSerial(serial) ==
    CASE serial = "mtp:host=ABC" -> "ABC"
      [] serial = "mtp:host=XYZ" -> "XYZ"
      [] OTHER -> serial

\* a duplicate removal that compares the serials as reported
RECURSIVE DedupLoop_RawSerial(_, _, _, _)
DedupLoop_RawSerial(unique, seen, infos, i) ==
    IF i > Len(infos)
    THEN unique
    ELSE LET serial == infos[i]["serial"] IN
         IF serial \notin seen
         THEN DedupLoop_RawSerial(Append(unique, infos[i]), seen \cup { serial }, infos, i + 1)
         ELSE DedupLoop_RawSerial(unique, seen, infos, i + 1)

RECURSIVE DedupLoop(_, _, _, _)
DedupLoop(unique, seen, infos, i) ==
    IF i > Len(infos)
    THEN unique
    ELSE LET serial == NormalSerial(infos[i]["serial"]) IN
         IF serial \notin seen
         THEN DedupLoop(Append(unique, infos[i]), seen \cup { serial }, infos, i + 1)
         ELSE DedupLoop(unique, seen, infos, i + 1)

\* "remove duplicates based on serial number"
Dedup(infos) == DedupLoop(<< >>, { }, infos, 1)

InitDetect ==
    /\ det_pc = "adb"
    /\ adb_env \in AdbEnvs
    /\ gio_env \in GioEnvs
    /\ scan_env \in ScanEnvs
    /\ probe_results = << >>
    /\ device_infos = << >>
    /\ unique_devices = << >>
    /\ devices = << >>
    /\ create_log = << >>
    /\ det_outcome = "running"
    /\ available_files = << >>
    /\ plan_info = << >>
    /\ MAX_BATCH_SIZE = 0
    /\ MAX_FILES_PER_BATCH = 0
    /\ batches = << >>
    /\ pc = "idle"
    /\ TransferIdle
    /\ CallIdle

\* one probe of the sum in get_connected_devices: an exception that leaves
\* the probe leaves get_connected_devices as DeviceConnectionError
RunProbe(here, next, r) ==
    /\ det_pc = here
    /\ IF r.raised
       THEN /\ det_outcome' = "raised_probe"
            /\ det_pc' = "done"
            /\ probe_results' = probe_results
       ELSE /\ det_outcome' = det_outcome
            /\ det_pc' = next
            /\ probe_results' = Append(probe_results, r.devices)
    /\ UNCHANGED << adb_env, gio_env, scan_env, device_infos, unique_devices, devices,
                    create_log >>
    /\ UNCHANGED << transferVars, callVars >>

ProbeAdb == RunProbe("adb", "gio", try_adb_devices(adb_env))

ProbeGio == RunProbe("gio", "scan", try_gio_mount(gio_env))

ProbeScan ==
    RunProbe("scan", "concat", [ raised |-> FALSE, devices |-> try_find_mount_point(scan_env) ])

\* the sum of the three lists, then the duplicate removal
Deduplicate ==
    /\ det_pc = "concat"
    /\ device_infos' = Flatten(probe_results)
    /\ unique_devices' = Dedup(device_infos')
    /\ det_pc' = "create"
    /\ UNCHANGED << adb_env, gio_env, scan_env, probe_results, devices, create_log,
                    det_outcome >>
    /\ UNCHANGED << transferVars, callVars >>

\* what the construction of one device meets: whether a mount point is found
\* (the mkdir of the adb directory, the three methods for mtp), and how the df
\* call ends, with the number of its output lines of six or more columns
CreateEnvs ==
    { [ mount |-> m, df |-> d, df_lines |-> 0 ] :
          m \in { "ok", "missing" }, d \in { "absent", "exit_nonzero" } }
        \cup { [ mount |-> m, df |-> "ok", df_lines |-> n ] :
                  m \in { "ok", "missing" }, n \in 0..MaxDfLines }

\* a Device that accepts an empty storage list
Device_init_NoStorageCheck(name, serial, storage_info) ==
    IF name = "" \/ serial = ""
    THEN [ raised |-> TRUE, device |-> << >> ]
    ELSE [ raised |-> FALSE,
           device |-> [ name |-> name, serial |-> serial, storage_info |-> storage_info ] ]

\* Device.__init__: the fields are assigned, then validated
Device_init(name, serial, storage_info) ==
    IF name = "" \/ serial = ""
    THEN [ raised |-> TRUE, device |-> << >> ]
    ELSE IF storage_info = << >>
         THEN [ raised |-> TRUE, device |-> << >> ]
         ELSE [ raised |-> FALSE,
                device |-> [ name |-> name, serial |-> serial,
                             storage_info |-> storage_info ] ]

\* _parse_size of the size column of the df lines of the runs, "1K"
ParsedCapacity == 1024

\* the storage list _create_device builds: the fallback unit when df exits
\* non-zero, else one unit per output line
StorageOf(env) ==
    IF env.df = "exit_nonzero"
    THEN << [ id |-> 0, name |-> "Device Storage", capacity |-> 0 ] >>
    ELSE [ i \in 1..env.df_lines |->
               [ id |-> i - 1, name |-> "Storage", capacity |-> ParsedCapacity ] ]

\* DeviceManager._create_device: [raised, device]; no mount point raises
\* DeviceConnectionError (OSError for adb), an absent df raises
\* FileNotFoundError
create_device(device_info, env) ==
    IF env.mount # "ok" \/ env.df = "absent"
    THEN [ raised |-> TRUE, device |-> << >> ]
    ELSE Device_init(device_info["name"],
                     IF Has(device_info, "serial") THEN device_info["serial"] ELSE "unknown",
                     StorageOf(env))

\* the loop over unique_devices: a device whose construction raises is
\* skipped
RECURSIVE CreateLoop(_, _, _, _)
CreateLoop(built, infos, envs, i) ==
    IF i > Len(infos)
    THEN built
    ELSE LET r == create_device(infos[i], envs[i]) IN
         CreateLoop(IF r.raised THEN built ELSE Append(built, r.device), infos, envs, i + 1)

CreateDevices ==
    /\ det_pc = "create"
    /\ \E envs \in [ 1..Len(unique_devices) -> CreateEnvs ] :
          /\ create_log' = envs
          /\ devices' = CreateLoop(<< >>, unique_devices, envs, 1)
    /\ det_pc' = "finish"
    /\ UNCHANGED << adb_env, gio_env, scan_env, probe_results, device_infos,
                    unique_devices, det_outcome >>
    /\ UNCHANGED << transferVars, callVars >>

\* "if not devices: raise DeviceConnectionError", else return devices
FinishDetect ==
    /\ det_pc = "finish"
    /\ det_outcome' = IF devices = << >> THEN "raised_none" ELSE "returned"
    /\ det_pc' = "done"
    /\ UNCHANGED << adb_env, gio_env, scan_env, probe_results, device_infos,
                    unique_devices, devices, create_log >>
    /\ UNCHANGED << transferVars, callVars >>

NextDetect ==
    \/ ProbeAdb
    \/ ProbeGio
    \/ ProbeScan
    \/ Deduplicate
    \/ CreateDevices
    \/ FinishDetect

SpecDetect == InitDetect /\ [][NextDetect]_vars

-----------------------------------------------------------------------------
(* Claims about get_connected_devices *)

\* the tool is absent or exits non-zero, or prints output that the probe
\* cannot parse
AdbFailed == adb_env.run # "ok"

GioFailed == gio_env.run # "ok" \/ GioParse(gio_env.lines).raised

\* C10: the probes run in the order adb, gio, scan; a probe whose tool is
\* absent, exits non-zero or prints malformed output yields an empty result
\* for that probe only, the other probes' results are used, and the failure
\* never aborts the call.
C10_ProbesIsolated ==
    det_pc \in { "create", "finish", "done" } =>
        /\ det_outcome # "raised_probe"
        /\ device_infos =
               (IF AdbFailed THEN << >> ELSE try_adb_devices(adb_env).devices)
            \o (IF GioFailed THEN << >> ELSE try_gio_mount(gio_env).devices)
            \o try_find_mount_point(scan_env)

\* the part of C10 that the code keeps: the order of the probes, and the
\* isolation of an absent tool and of a non-zero exit
C10_OrderAndCaughtFailures ==
    /\ det_pc \in { "create", "finish" } =>
          device_infos =
               try_adb_devices(adb_env).devices
            \o try_gio_mount(gio_env).devices
            \o try_find_mount_point(scan_env)
    /\ det_outcome = "raised_probe" =>
          (gio_env.run = "ok" /\ GioParse(gio_env.lines).raised)

-----------------------------------------------------------------------------
(* The duplicate removal of get_connected_devices on its own: any raw list *)

\* raw entries as the probes build them, with serials reported with and
\* without the "mtp:host=" prefix
RawSerials == { "ABC", "mtp:host=ABC", "XYZ", "mtp:host=XYZ" }

RawInfos ==
    { [ type |-> "adb", name |-> "Pixel 7", serial |-> sr, transport |-> "adb" ] :
          sr \in RawSerials }
        \cup { [ type |-> "mtp", name |-> "Pixel", mount_point |-> MtpUrl(NormalSerial(sr)),
                  serial |-> sr, transport |-> "mtp" ] : sr \in RawSerials }

InitDedup ==
    /\ det_pc = "concat"
    /\ adb_env = "none"
    /\ gio_env = "none"
    /\ scan_env = << >>
    /\ probe_results \in [ 1..3 -> SeqsUpTo(RawInfos, 1) ] \cup { << s >> : s \in SeqsUpTo(RawInfos, MaxInfos) }
    /\ device_infos = << >>
    /\ unique_devices = << >>
    /\ devices = << >>
    /\ create_log = << >>
    /\ det_outcome = "running"
    /\ available_files = << >>
    /\ plan_info = << >>
    /\ MAX_BATCH_SIZE = 0
    /\ MAX_FILES_PER_BATCH = 0
    /\ batches = << >>
    /\ pc = "idle"
    /\ TransferIdle
    /\ CallIdle

NextDedup == Deduplicate

SpecDedup == InitDedup /\ [][NextDedup]_vars

\* the positions of a list that hold the first report of their normalised
\* serial
FirstReports(infos) ==
    { i \in 1..Len(infos) :
        \A j \in 1..(i - 1) :
            NormalSerial(infos[j]["serial"]) # NormalSerial(infos[i]["serial"]) }

\* the entries of a list at a set of positions, in the list's order
RECURSIVE EntriesAt(_, _, _)
EntriesAt(infos, keep, i) ==
    IF i > Len(infos)
    THEN << >>
    ELSE (IF i \in keep THEN << infos[i] >> ELSE << >>) \o EntriesAt(infos, keep, i + 1)

\* C11: the deduplicated list holds, for every normalised serial, exactly
\* the first raw entry in probe order and none of the later ones: its
\* normalised serials are pairwise distinct and the first-seen order is kept.
C11_DedupKeepsFirstPerSerial ==
    det_pc = "create" =>
        /\ unique_devices = EntriesAt(device_infos, FirstReports(device_infos), 1)
        /\ \A i, j \in 1..Len(unique_devices) :
               i # j => NormalSerial(unique_devices[i]["serial"])
                            # NormalSerial(unique_devices[j]["serial"])
        /\ { NormalSerial(d["serial"]) : d \in { device_infos[i] : i \in 1..Len(device_infos) } }
               = { NormalSerial(d["serial"]) : d \in { unique_devices[i] : i \in 1..Len(unique_devices) } }

\* reports "mtp:host=ABC" by adb and "ABC" by a later probe collapsed into the
\* adb entry
C11_Witness ==
    /\ det_pc = "create"
    /\ Len(device_infos) = 2
    /\ device_infos[1]["serial"] = "mtp:host=ABC" /\ device_infos[1]["type"] = "adb"
    /\ device_infos[2]["serial"] = "ABC" /\ device_infos[2]["type"] = "mtp"
    /\ unique_devices = << device_infos[1] >>

-----------------------------------------------------------------------------
(* Claims about the construction of the devices *)

\* the devices that the construction attempts of a run yield, in the order
\* of the deduplicated list
RECURSIVE ConstructibleFrom(_)
ConstructibleFrom(i) ==
    IF i > Len(unique_devices)
    THEN << >>
    ELSE LET r == create_device(unique_devices[i], create_log[i]) IN
         (IF r.raised THEN << >> ELSE << r.device >>) \o ConstructibleFrom(i + 1)

AttemptsComplete ==
    /\ Len(create_log) = Len(unique_devices)
    /\ devices = ConstructibleFrom(1)
    /\ (det_outcome = "raised_none") <=> (devices = << >>)
    /\ (det_outcome = "returned") <=> (devices # << >>)

\* C12: get_connected_devices raises exactly when no device remains after
\* all probes, the duplicate removal and the construction attempts; a device
\* whose construction fails is skipped, and with at least one constructible
\* device the call returns all constructible devices in deduplicated order.
C12_RaisesIffNoDeviceRemains ==
    det_pc = "done" => (det_outcome # "raised_probe" /\ AttemptsComplete)

\* the part of C12 that the code keeps: once the three probes have returned
C12_WhenProbesReturn ==
    (det_pc = "done" /\ det_outcome # "raised_probe") => AttemptsComplete

ValidDevice(d) ==
    /\ d.name # ""
    /\ d.serial # ""
    /\ Len(d.storage_info) >= 1

\* C13: every constructed Device has a non-empty name, a non-empty serial
\* and at least one storage unit; a construction with an empty name, an
\* empty serial or an empty storage list raises, so no such device is in
\* the list get_connected_devices builds and returns.
C13_DevicesAreValid ==
    /\ \A k \in 1..Len(devices) : ValidDevice(devices[k])
    /\ Len(create_log) = Len(unique_devices) =>
          \A i \in 1..Len(unique_devices) :
              ( \/ unique_devices[i]["name"] = ""
                \/ unique_devices[i]["serial"] = ""
                \/ StorageOf(create_log[i]) = << >> )
              => \A k \in 1..Len(devices) :
                     devices[k].serial # unique_devices[i]["serial"]

\* a returned list with one device built, while a device with an empty name
\* whose mount point and storage were found was left out
C13_Witness ==
    /\ det_outcome = "returned"
    /\ Len(devices) = 1
    /\ \E i \in 1..Len(unique_devices) :
          /\ unique_devices[i]["name"] = ""
          /\ create_log[i].mount = "ok"
          /\ create_log[i].df = "ok"
          /\ create_log[i].df_lines = 1

-----------------------------------------------------------------------------
(* ConfigManager.is_safe_path on the text of a path *)

\* A path is a sequence of pieces of text: the separators "/" and "\", the
\* dot, the blank, and words that hold none of them. Prefix, substring and
\* split are computed on the pieces.
ISS == "Internal shared storage"

SAFE_PATHS ==
    << << "/", ISS, "/", "DCIM", "/", "Camera" >>,
       << "/", ISS, "/", "DCIM", "/", "Screenshots" >>,
       << "/", ISS, "/", "Pictures" >>,
       << "/", ISS, "/", "Movies" >>,
       << "/", ISS, "/", "Music" >>,
       << "/", ISS, "/", "Recordings" >>,
       << "/", ISS, "/", "Download" >> >>

RESTRICTED_PATHS ==
    << << ".", "android" >>,
       << "Android", "/", "data" >>,
       << "Android", "/", "obb" >>,
       << "Android", "/", "media" >>,
       << ".", "system" >>,
       << "system" >>,
       << ".", "hidden" >>,
       << ".", "cache" >>,
       << "cache" >>,
       << ".", "trash" >>,
       << "lost", ".", "dir" >> >>

\* str.replace("\\", "/")
ReplaceBackslash(path) ==
    [ i \in 1..Len(path) |-> IF path[i] = "\\" THEN "/" ELSE path[i] ]

\* str.strip()
RECURSIVE Strip(_)
Strip(path) ==
    IF path = << >> THEN path
    ELSE IF Head(path) = " " THEN Strip(Tail(path))
    ELSE IF path[Len(path)] = " " THEN Strip(SubSeq(path, 1, Len(path) - 1))
    ELSE path

\* str.startswith
StartsWith(text, prefix) ==
    /\ Len(prefix) <= Len(text)
    /\ SubSeq(text, 1, Len(prefix)) = prefix

\* the `in` of two strings
Contains(text, part) ==
    \E i \in 1..(Len(text) - Len(part) + 1) :
        SubSeq(text, i, i + Len(part) - 1) = part

\* str.split("/")
RECURSIVE SplitLoop(_, _, _)
SplitLoop(parts, current, rest) ==
    IF rest = << >>
    THEN Append(parts, current)
    ELSE IF Head(rest) = "/"
         THEN SplitLoop(Append(parts, current), << >>, Tail(rest))
         ELSE SplitLoop(parts, Append(current, Head(rest)), Tail(rest))

Split(path) == SplitLoop(<< >>, << >>, path)

\* lines 185-187
NormalizePath(path) ==
    LET cleaned == Strip(ReplaceBackslash(path)) IN
    IF StartsWith(cleaned, << "/" >>) THEN cleaned ELSE << "/" >> \o cleaned

\* line 200: path.startswith(safe_path)
SafePrefix(path, safe_path) == StartsWith(path, safe_path)

\* ConfigManager.is_safe_path
is_safe_path_text(path_arg) ==
    LET path == NormalizePath(path_arg)
        path_parts == Split(path)
    IN IF \E r \in 1..Len(RESTRICTED_PATHS) : Contains(path, RESTRICTED_PATHS[r])
       THEN FALSE
       ELSE IF \E k \in 1..Len(path_parts) :
                   path_parts[k] # << >> /\ StartsWith(path_parts[k], << "." >>)
            THEN FALSE
            ELSE \E q \in 1..Len(SAFE_PATHS) : SafePrefix(path, SAFE_PATHS[q])

\* the text of the paths of the device's file tree
PathText(p) ==
    LET camera == << "/", ISS, "/", "DCIM", "/", "Camera" >> IN
    CASE p = CAMERA  -> camera
      [] p = F_A     -> camera \o << "/", "a", ".", "jpg" >>
      [] p = F_B     -> camera \o << "/", "b", ".", "mp4" >>
      [] p = F_CACHE -> camera \o << "/", "cache", "_1", ".", "jpg" >>
      [] p = F_TXT   -> camera \o << "/", "notes", ".", "txt" >>
      [] p = F_HID   -> camera \o << "/", ".", "thumb", ".", "jpg" >>
      [] p = D_SUB   -> camera \o << "/", "sub" >>
      [] p = F_C     -> << "/", ISS, "/", "Music", "/", "c", ".", "mp3" >>
      [] p = NOTES   -> << "/", ISS, "/", "Notes" >>

\* is_safe_path on the file tree is is_safe_path on the text of its paths
FileTreeSafetyAgrees ==
    \A p \in AllPaths : is_safe_path(p) <=> is_safe_path_text(PathText(p))

\* the four paths the specification names
EX_CAMERA_FILE == << "/", ISS, "/", "DCIM", "/", "Camera", "/", "x", ".", "jpg" >>
EX_HIDDEN_DIR  == << "/", ISS, "/", ".", "hidden", "/", "x", ".", "jpg" >>
EX_ANDROID     == << "/", "Android", "/", "data", "/", "x" >>
EX_NOTES       == << "/", ISS, "/", "Notes" >>

PathHeads ==
    { << >>, << "/" >>, << "/", ISS >>, << ISS, "/", "Music" >>,
      << "\\", ISS, "\\", "Music" >>, << "/", ISS, "/", "DCIM" >> }
        \cup { SAFE_PATHS[q] : q \in 1..Len(SAFE_PATHS) }

PathTails == SeqsUpTo({ "/", "\\", ".", " ", "x", "cache" }, MaxTail)

PathTexts ==
    { EX_CAMERA_FILE, EX_HIDDEN_DIR, EX_ANDROID, EX_NOTES }
        \cup { h \o t : h \in PathHeads, t \in PathTails }

\* neither transfer_files nor get_connected_devices is running
ProgramIdle ==
    /\ available_files = << >>
    /\ plan_info = << >>
    /\ MAX_BATCH_SIZE = 0
    /\ MAX_FILES_PER_BATCH = 0
    /\ batches = << >>
    /\ pc = "idle"
    /\ TransferIdle
    /\ DetectIdle

InitSafePath ==
    /\ call_pc = "called"
    /\ call_args \in { [ path |-> t ] : t \in PathTexts }
    /\ call_ret = << >>
    /\ ProgramIdle

CallIsSafePath ==
    /\ call_pc = "called"
    /\ call_ret' = [ value |-> is_safe_path_text(call_args.path) ]
    /\ call_pc' = "returned"
    /\ UNCHANGED << call_args, transferVars, detectVars >>

NextSafePath == CallIsSafePath

SpecSafePath == InitSafePath /\ [][NextSafePath]_vars

\* the path of the claim: backslashes replaced, blanks around it dropped, a
\* leading slash forced
ClaimedSafe(path_arg) ==
    LET path == NormalizePath(path_arg) IN
    /\ \A r \in 1..Len(RESTRICTED_PATHS) : ~Contains(path, RESTRICTED_PATHS[r])
    /\ \A i \in 1..Len(path) : path[i] = "." => (i > 1 /\ path[i - 1] # "/")
    /\ \E q \in 1..Len(SAFE_PATHS) :
          \/ path = SAFE_PATHS[q]
          \/ StartsWith(path, SAFE_PATHS[q] \o << "/" >>)

\* C14: is_safe_path returns true exactly when the normalised path holds no
\* restricted substring, has no segment that begins with a dot, and equals or
\* descends, at a segment boundary, from one of the allow-listed roots.
C14_SafeIffUnderAllowedRoot ==
    call_pc = "returned" => (call_ret.value <=> ClaimedSafe(call_args.path))

\* the part of C14 that the code keeps: the two rejections, the acceptance
\* of every path the claim accepts, and the four named paths
C14_RejectionsAndExamples ==
    call_pc = "returned" =>
        /\ ClaimedSafe(call_args.path) => call_ret.value
        /\ call_ret.value =>
              /\ \A r \in 1..Len(RESTRICTED_PATHS) :
                     ~Contains(NormalizePath(call_args.path), RESTRICTED_PATHS[r])
              /\ \E q \in 1..Len(SAFE_PATHS) :
                     StartsWith(NormalizePath(call_args.path), SAFE_PATHS[q])
        /\ call_args.path = EX_CAMERA_FILE => call_ret.value
        /\ call_args.path \in { EX_HIDDEN_DIR, EX_ANDROID, EX_NOTES } => ~call_ret.value

-----------------------------------------------------------------------------
(* FileSystem.list_files on its own *)

\* Optional[int]: None is the empty sequence
None == << >>

Some(v) == << v >>

\* the FileInfo built at lines 148-154 (name, path, type, size)
FileInfoOf(p, file_type) ==
    [ path |-> p, type |-> file_type,
      size |-> IF file_type # "FOLDER" THEN Some(Size(p)) ELSE None ]

\* a loop body that keeps the files of type OTHER
ListEntry_KeepsOther(files, entry, unreadable) ==
    IF Hidden(entry)
    THEN files
    ELSE IF entry \in unreadable
         THEN files
         ELSE Append(files, FileInfoOf(entry, FileTypeOf(entry)))

\* the body of the loop over os.scandir (lines 134-158): hidden names and
\* files of type OTHER are skipped, an entry whose stat raises OSError is
\* skipped with a warning
ListEntry(files, entry, unreadable) ==
    IF Hidden(entry)
    THEN files
    ELSE LET file_type == FileTypeOf(entry) IN
         IF file_type # "FOLDER" /\ file_type = "OTHER"
         THEN files
         ELSE IF entry \in unreadable
              THEN files
              ELSE Append(files, FileInfoOf(entry, file_type))

RECURSIVE ListLoop(_, _, _, _)
ListLoop(files, entries, unreadable, i) ==
    IF i > Len(entries)
    THEN files
    ELSE ListLoop(ListEntry(files, entries[i], unreadable), entries, unreadable, i + 1)

\* FileSystem.list_files: [raised, files]. env: the paths that exist (dev),
\* whether os.scandir can read the directory (scandir), the entries whose
\* stat raises (unreadable)
ListFiles(env, path) ==
    IF ~is_safe_path(path)
    THEN [ raised |-> TRUE, files |-> << >> ]
    ELSE IF path \notin env.dev
         THEN [ raised |-> TRUE, files |-> << >> ]
         ELSE IF ~IsDir(path)
              THEN [ raised |-> TRUE, files |-> << >> ]
              ELSE IF env.scandir # "ok"
                   THEN [ raised |-> TRUE, files |-> << >> ]
                   ELSE [ raised |-> FALSE,
                          files |-> ListLoop(<< >>,
                                             SelectSeq(Children(path),
                                                       LAMBDA c : c \in env.dev),
                                             env.unreadable, 1) ]

\* the states of the file tree: some entries of the camera folder gone, or
\* the camera folder gone with all it holds
FileTrees ==
    { AllPaths \ gone : gone \in SUBSET { F_B, F_TXT, D_SUB } }
        \cup { { F_C, NOTES } }

ListEnvs ==
    { [ dev |-> d, scandir |-> sc, unreadable |-> u ] :
          d \in FileTrees, sc \in { "ok", "error" }, u \in SUBSET { F_A, D_SUB, F_HID } }

InitListFiles ==
    /\ call_pc = "called"
    /\ call_args \in { [ path |-> q, env |-> e ] : q \in AllPaths, e \in ListEnvs }
    /\ call_ret = << >>
    /\ ProgramIdle

CallListFiles ==
    /\ call_pc = "called"
    /\ call_ret' = ListFiles(call_args.env, call_args.path)
    /\ call_pc' = "returned"
    /\ UNCHANGED << call_args, transferVars, detectVars >>

NextListFiles == CallListFiles

SpecListFiles == InitListFiles /\ [][NextListFiles]_vars

\* the path is refused, missing, or no directory
NotListable(env, path) ==
    \/ ~is_safe_path_text(PathText(path))
    \/ path \notin env.dev
    \/ ~IsDir(path)

\* the children of a directory that are there and whose name does not start
\* with a dot, folders and media files only
VisibleChildren(env, path) ==
    SelectSeq(Children(path),
              LAMBDA c : /\ c \in env.dev
                         /\ ~StartsWith(Last(Split(PathText(c))), << "." >>)
                         /\ FileTypeOf(c) \in { "FOLDER", "IMAGE", "VIDEO", "AUDIO" })

EntriesWellFormed(files, expected) ==
    /\ Len(files) = Len(expected)
    /\ \A i \in 1..Len(files) :
          /\ files[i].path = expected[i]
          /\ files[i].type = FileTypeOf(expected[i])
          /\ (files[i].size = None) <=> (files[i].type = "FOLDER")
          /\ files[i].type # "FOLDER" => files[i].size = Some(Size(expected[i]))

-----------------------------------------------------------------------------
(* TransferManager._handle_duplicate *)

\* A file name is a sequence of pieces of text: words, ".", "_" and decimal
\* digits.
Digit(d) ==
    CASE d = 0 -> "0" [] d = 1 -> "1" [] d = 2 -> "2" [] d = 3 -> "3" [] d = 4 -> "4"
      [] d = 5 -> "5" [] d = 6 -> "6" [] d = 7 -> "7" [] d = 8 -> "8" [] d = 9 -> "9"

\* the text of a counter in an f-string
RECURSIVE Decimal(_)
Decimal(n) == IF n < 10 THEN << Digit(n) >> ELSE Decimal(n \div 10) \o << Digit(n % 10) >>

\* the position of the dot that starts the suffix of a name, 0 when the
\* name has none (a leading dot starts no suffix)
SuffixDot(name) ==
    LET dots == { i \in 2..Len(name) : name[i] = "." } IN
    IF dots = { } THEN 0 ELSE CHOOSE i \in dots : \A j \in dots : j <= i

\* Path.stem
Stem(name) == IF SuffixDot(name) = 0 THEN name ELSE SubSeq(name, 1, SuffixDot(name) - 1)

\* Path.suffix
Suffix(name) == IF SuffixDot(name) = 0 THEN << >> ELSE SubSeq(name, SuffixDot(name), Len(name))

\* a new name that puts the counter after the extension
NewPath_AfterSuffix(dest_path, counter) == dest_path \o << "_" >> \o Decimal(counter)

\* line 166: dest_path.with_name(f"{stem}_{counter}{suffix}")
NewPath(dest_path, counter) ==
    Stem(dest_path) \o << "_" >> \o Decimal(counter) \o Suffix(dest_path)

A_JPG == << "a", ".", "jpg" >>

\* the names the destination folder may hold
DestNames ==
    { A_JPG, << "a" >>, << "a", "_", "1", "_", "1", ".", "jpg" >>, << "b", ".", "jpg" >> }
        \cup { << "a", "_" >> \o Decimal(k) \o << ".", "jpg" >> : k \in 1..MaxCounter }

InitDuplicate ==
    /\ call_pc = "called"
    /\ call_args \in
          { [ dest_path |-> d, strategy |-> st, existing |-> ex ] :
                d \in { A_JPG, << "a" >>, << "a", "_", "1", ".", "jpg" >> },
                st \in { "rename", "skip", "overwrite" },
                ex \in SUBSET DestNames }
    /\ call_ret = [ counter |-> 0, path |-> << >>, earlier |-> << >> ]
    /\ ProgramIdle

\* lines 155-162
HandleDuplicate ==
    /\ call_pc = "called"
    /\ IF call_args.dest_path \notin call_args.existing \/ call_args.strategy = "overwrite"
       THEN /\ call_pc' = "returned"
            /\ call_ret' = [ call_ret EXCEPT !.path = call_args.dest_path ]
       ELSE IF call_args.strategy = "skip"
            THEN /\ call_pc' = "raised"
                 /\ call_ret' = call_ret
            ELSE /\ call_pc' = "rename"
                 /\ call_ret' = [ call_ret EXCEPT !.counter = 1 ]
    /\ UNCHANGED << call_args, transferVars, detectVars >>

\* lines 163-169, one turn of the loop
RenameProbe ==
    /\ call_pc = "rename"
    /\ LET new_path == NewPath(call_args.dest_path, call_ret.counter) IN
       IF new_path \notin call_args.existing
       THEN /\ call_pc' = "returned"
            /\ call_ret' = [ call_ret EXCEPT !.path = new_path ]
       ELSE /\ call_pc' = "rename"
            /\ call_ret' = [ call_ret EXCEPT !.counter = @ + 1 ]
    /\ UNCHANGED << call_args, transferVars, detectVars >>

\* the same call made once more against the unchanged destination
HandleDuplicateAgain ==
    /\ call_pc = "returned"
    /\ call_ret.earlier = << >>
    /\ call_pc' = "called"
    /\ call_ret' = [ counter |-> 0, path |-> << >>, earlier |-> << call_ret.path >> ]
    /\ UNCHANGED << call_args, transferVars, detectVars >>

NextDuplicate ==
    \/ HandleDuplicate
    \/ RenameProbe
    \/ HandleDuplicateAgain

SpecDuplicate == InitDuplicate /\ [][NextDuplicate]_vars

\* the name stem_k+extension
Renamed(name, k) ==
    LET dot == IF \E i \in 2..Len(name) : name[i] = "."
               THEN CHOOSE i \in 2..Len(name) :
                        name[i] = "." /\ \A j \in (i + 1)..Len(name) : name[j] # "."
               ELSE Len(name) + 1
    IN SubSeq(name, 1, dot - 1) \o << "_" >> \o Decimal(k) \o SubSeq(name, dot, Len(name))

RenameCase ==
    /\ call_args.strategy = "rename"
    /\ call_args.dest_path \in call_args.existing

\* C16: with strategy "rename" and a file at the destination name, the
\* name returned is stem_k+extension for the smallest k >= 1 that no file
\* has; it collides with no file, the search ends after at most one probe
\* per existing file more than one, and a second call against the unchanged
\* destination returns the same path.
C16_RenameSmallestFreeSuffix ==
    RenameCase =>
        /\ call_ret.counter <= Cardinality(call_args.existing) + 1
        /\ call_pc # "raised"
        /\ call_pc = "returned" =>
              /\ call_ret.counter >= 1
              /\ call_ret.path = Renamed(call_args.dest_path, call_ret.counter)
              /\ call_ret.path \notin call_args.existing
              /\ \A k \in 1..(call_ret.counter - 1) :
                     Renamed(call_args.dest_path, k) \in call_args.existing
              /\ call_ret.earlier # << >> => call_ret.path = call_ret.earlier[1]

\* a.jpg, a_1.jpg and a_2.jpg exist: the second call for a.jpg has returned
\* a_3.jpg as the first did
C16_Witness ==
    /\ call_pc = "returned"
    /\ call_args.strategy = "rename"
    /\ call_args.dest_path = A_JPG
    /\ { A_JPG, << "a", "_", "1", ".", "jpg" >>, << "a", "_", "2", ".", "jpg" >> }
           \subseteq call_args.existing
    /\ call_ret.path = << "a", "_", "3", ".", "jpg" >>
    /\ call_ret.earlier = << call_ret.path >>

-----------------------------------------------------------------------------
(* TransferManager._get_organized_path *)

\* A directory path is a sequence of segments, a segment a sequence of
\* pieces of text.
FileTypes == { "FOLDER", "IMAGE", "VIDEO", "AUDIO", "DOCUMENT", "OTHER" }

OrganizationStrategies == { "NONE", "BY_DATE", "BY_TYPE", "BY_TYPE_AND_DATE" }

\* type_dirs.get(file_info.type, "Other")
TypeDir(file_type) ==
    CASE file_type = "IMAGE"    -> << "Images" >>
      [] file_type = "VIDEO"    -> << "Videos" >>
      [] file_type = "AUDIO"    -> << "Audio" >>
      [] file_type = "DOCUMENT" -> << "Documents" >>
      [] file_type = "OTHER"    -> << "Other" >>
      [] OTHER                  -> << "Other" >>

\* f"{n:02d}"
TwoDigits(n) == IF n < 10 THEN << "0" >> \o Decimal(n) ELSE Decimal(n)

\* an organized path with the date folders above the type folder
get_organized_path_DateFirst(file_info, base_path, strategy) ==
    IF strategy = "NONE"
    THEN base_path
    ELSE base_path
           \o (IF strategy \in { "BY_DATE", "BY_TYPE_AND_DATE" }
                  /\ file_info.modified_date # None
               THEN LET date == file_info.modified_date[1] IN
                    << Decimal(date.year), TwoDigits(date.month), TwoDigits(date.day) >>
               ELSE << >>)
           \o (IF strategy \in { "BY_TYPE", "BY_TYPE_AND_DATE" }
               THEN << TypeDir(file_info.type) >>
               ELSE << >>)

\* TransferManager._get_organized_path
get_organized_path(file_info, base_path, strategy) ==
    IF strategy = "NONE"
    THEN base_path
    ELSE LET type_parts ==
                 IF strategy \in { "BY_TYPE", "BY_TYPE_AND_DATE" }
                 THEN << TypeDir(file_info.type) >>
                 ELSE << >>
             date_parts ==
                 IF strategy \in { "BY_DATE", "BY_TYPE_AND_DATE" }
                    /\ file_info.modified_date # None
                 THEN LET date == file_info.modified_date[1] IN
                      << Decimal(date.year), TwoDigits(date.month), TwoDigits(date.day) >>
                 ELSE << >>
         IN base_path \o type_parts \o date_parts

DATE_2024_03_20 == [ year |-> 2024, month |-> 3, day |-> 20 ]

DATE_2023_12_05 == [ year |-> 2023, month |-> 12, day |-> 5 ]

OUT == << << "out" >> >>

InitOrganize ==
    /\ call_pc = "called"
    /\ call_args \in
          { [ file_info |-> [ type |-> ty, modified_date |-> md ],
              base_path |-> b, strategy |-> st ] :
                ty \in FileTypes,
                md \in { None, Some(DATE_2024_03_20), Some(DATE_2023_12_05) },
                b \in { OUT, << << "home" >>, << "media" >> >> },
                st \in OrganizationStrategies }
    /\ call_ret = << >>
    /\ ProgramIdle

CallGetOrganizedPath ==
    /\ call_pc = "called"
    /\ call_ret' = [ path |-> get_organized_path(call_args.file_info, call_args.base_path,
                                                 call_args.strategy) ]
    /\ call_pc' = "returned"
    /\ UNCHANGED << call_args, transferVars, detectVars >>

NextOrganize == CallGetOrganizedPath

SpecOrganize == InitOrganize /\ [][NextOrganize]_vars

\* the folder of a category
CategoryFolder(file_type) ==
    CASE file_type = "IMAGE"    -> << << "Images" >> >>
      [] file_type = "VIDEO"    -> << << "Videos" >> >>
      [] file_type = "AUDIO"    -> << << "Audio" >> >>
      [] file_type = "DOCUMENT" -> << << "Documents" >> >>
      [] OTHER                  -> << << "Other" >> >>

\* YYYY/MM/DD of a modified timestamp, nothing when it is unknown
DateFolders(modified_date) ==
    CASE modified_date = Some(DATE_2024_03_20) ->
             << << "2", "0", "2", "4" >>, << "0", "3" >>, << "2", "0" >> >>
      [] modified_date = Some(DATE_2023_12_05) ->
             << << "2", "0", "2", "3" >>, << "1", "2" >>, << "0", "5" >> >>
      [] OTHER -> << >>

\* C17: NONE leaves the base unchanged; BY_TYPE appends the category
\* folder; BY_DATE appends YYYY/MM/DD of the modified timestamp when it is
\* known and nothing when it is unknown; BY_TYPE_AND_DATE appends the
\* category folder and, inside it, the date folders.
C17_OrganizedPath ==
    call_pc = "returned" =>
        LET info == call_args.file_info
            base == call_args.base_path
        IN call_ret.path =
               CASE call_args.strategy = "NONE"    -> base
                 [] call_args.strategy = "BY_TYPE" -> base \o CategoryFolder(info.type)
                 [] call_args.strategy = "BY_DATE" -> base \o DateFolders(info.modified_date)
                 [] call_args.strategy = "BY_TYPE_AND_DATE" ->
                        base \o CategoryFolder(info.type) \o DateFolders(info.modified_date)

\* a Video modified 2024-03-20 under /out resolved to /out/Videos/2024/03/20
C17_Witness ==
    /\ call_pc = "returned"
    /\ call_args.strategy = "BY_TYPE_AND_DATE"
    /\ call_args.file_info = [ type |-> "VIDEO", modified_date |-> Some(DATE_2024_03_20) ]
    /\ call_args.base_path = OUT
    /\ call_ret.path = << << "out" >>, << "Videos" >>, << "2", "0", "2", "4" >>,
                          << "0", "3" >>, << "2", "0" >> >>

-----------------------------------------------------------------------------
(* TransferManager._calculate_hash and the single-file transfer *)

\* A file's content is a sequence of bytes, here 0 and 1.
Bytes == { 0, 1 }

Contents == SeqsUpTo(Bytes, MaxBytes)

\* sha256.update: the digest state after one more block of data. The state
\* is a number that no two different byte sequences share.
RECURSIVE HashUpdate(_, _)
HashUpdate(state, data) ==
    IF data = << >> THEN state ELSE HashUpdate(3 * state + Head(data) + 1, Tail(data))

\* a hash that stops after the first read
RECURSIVE HashLoop_FirstReadOnly(_, _)
HashLoop_FirstReadOnly(state, rest) ==
    IF rest = << >>
    THEN state
    ELSE HashUpdate(state, SubSeq(rest, 1, IF Len(rest) < ReadSize THEN Len(rest) ELSE ReadSize))

\* lines 95-99: read up to BUFFER_SIZE bytes until the read is empty
RECURSIVE HashLoop(_, _)
HashLoop(state, rest) ==
    IF rest = << >>
    THEN state
    ELSE LET n == IF Len(rest) < ReadSize THEN Len(rest) ELSE ReadSize IN
         HashLoop(HashUpdate(state, SubSeq(rest, 1, n)), SubSeq(rest, n + 1, Len(rest)))

\* TransferManager._calculate_hash of a file with the given content
calculate_hash(content) == HashLoop(0, content)

InitTransferFile ==
    /\ call_pc = "called"
    /\ call_args \in { [ content |-> c, verify |-> v ] : c \in Contents, v \in BOOLEAN }
    /\ call_ret = [ dest_file |-> None, hash |-> None, success |-> FALSE, error |-> "" ]
    /\ ProgramIdle

\* the stream copy: the source bytes are written to the destination and the
\* running hash is kept
TransferFileCopy ==
    /\ call_pc = "called"
    /\ call_ret' = [ call_ret EXCEPT !.dest_file = Some(call_args.content),
                                     !.hash = Some(HashUpdate(0, call_args.content)) ]
    /\ call_pc' = "written"
    /\ UNCHANGED << call_args, transferVars, detectVars >>

\* something else changes the written file before the comparison
CorruptDestination ==
    /\ call_pc = "written"
    /\ \E c \in Contents :
          /\ c # call_ret.dest_file[1]
          /\ call_ret' = [ call_ret EXCEPT !.dest_file = Some(c) ]
    /\ call_pc' = "corrupted"
    /\ UNCHANGED << call_args, transferVars, detectVars >>

\* with verify, the hash of the written file is computed again and
\* compared; a mismatch is a verification failure and the file stays
TransferFileVerify ==
    /\ call_pc \in { "written", "corrupted" }
    /\ IF call_args.verify /\ calculate_hash(call_ret.dest_file[1]) # call_ret.hash[1]
       THEN call_ret' = [ call_ret EXCEPT !.success = FALSE, !.error = "VerificationFailed" ]
       ELSE call_ret' = [ call_ret EXCEPT !.success = TRUE ]
    /\ call_pc' = "returned"
    /\ UNCHANGED << call_args, transferVars, detectVars >>

NextTransferFile ==
    \/ TransferFileCopy
    \/ CorruptDestination
    \/ TransferFileVerify

SpecTransferFile == InitTransferFile /\ [][NextTransferFile]_vars

\* the hash of a content taken in one piece
RECURSIVE ContentHash(_)
ContentHash(content) ==
    IF content = << >>
    THEN 0
    ELSE 3 * ContentHash(SubSeq(content, 1, Len(content) - 1)) + content[Len(content)] + 1

\* C18: with verify, a single-file transfer whose written bytes equal the
\* source bytes succeeds and reports the hash of the source content; when
\* the destination differs from the source at the comparison it fails with a
\* verification error and the written file stays in place.
C18_VerifyDetectsDifference ==
    (call_pc = "returned" /\ call_args.verify) =>
        /\ call_ret.dest_file # None
        /\ IF call_ret.dest_file[1] = call_args.content
           THEN /\ call_ret.success
                /\ call_ret.hash = Some(ContentHash(call_args.content))
           ELSE /\ ~call_ret.success
                /\ call_ret.error = "VerificationFailed"

\* a three-byte file whose last byte was changed after the copy: the
\* transfer failed and the changed file is still there
C18_Witness ==
    /\ call_pc = "returned"
    /\ call_args.verify
    /\ call_args.content = << 0, 1, 0 >>
    /\ call_ret.dest_file = Some(<< 0, 1, 1 >>)
    /\ ~call_ret.success

-----------------------------------------------------------------------------
(* TransferLogger.add_entry and get_entries on their own *)

\* the fields of a TransferLogEntry kept in the model
EntryFields ==
    { "source_dir", "successful_files", "failed_files", "failed_paths", "total_size",
      "delete_source" }

\* a record of an earlier format, without failed_paths
ShortRecord ==
    [ source_dir |-> F_C, successful_files |-> << F_C >>, failed_files |-> << >>,
      total_size |-> 2, delete_source |-> FALSE ]

\* a record with a field TransferLogEntry does not have
WideRecord ==
    [ source_dir |-> F_C, successful_files |-> << F_C >>, failed_files |-> << >>,
      failed_paths |-> << >>, total_size |-> 2, delete_source |-> FALSE, note |-> "x" ]

NewEntry ==
    [ source_dir |-> CAMERA, successful_files |-> << F_A >>, failed_files |-> << F_B >>,
      failed_paths |-> << >>, total_size |-> 1, delete_source |-> TRUE ]

LogFiles ==
    { AbsentFile, CorruptFile, NonListFile, NullFile }
        \cup { ListFile(es) : es \in SeqsUpTo({ OldEntry, NewEntry, ShortRecord, WideRecord },
                                              MaxEntries) }

\* line 97: [TransferLogEntry(**entry) for entry in logs]; a missing or an
\* unexpected field raises TypeError
RECURSIVE BuildEntries(_, _)
BuildEntries(logs, i) ==
    IF i > Len(logs)
    THEN [ raised |-> FALSE, entries |-> << >> ]
    ELSE IF DOMAIN logs[i] # EntryFields
         THEN [ raised |-> TRUE, entries |-> << >> ]
         ELSE LET rest == BuildEntries(logs, i + 1) IN
              IF rest.raised
              THEN rest
              ELSE [ raised |-> FALSE, entries |-> << logs[i] >> \o rest.entries ]

\* TransferLogger.get_entries: [raised, entries]. Only json.JSONDecodeError
\* and KeyError are caught; a JSON object with no member (NonListFile)
\* iterates as empty, JSON null raises TypeError
get_entries(j, io) ==
    CASE j.kind = "absent"  -> [ raised |-> FALSE, entries |-> << >> ]
      [] io = "read_error"  -> [ raised |-> TRUE,  entries |-> << >> ]
      [] j.kind = "corrupt" -> [ raised |-> FALSE, entries |-> << >> ]
      [] j.kind = "nonlist" -> [ raised |-> FALSE, entries |-> << >> ]
      [] j.kind = "null"    -> [ raised |-> TRUE,  entries |-> << >> ]
      [] OTHER              -> BuildEntries(j.entries, 1)

InitLogger ==
    /\ call_pc = "called"
    /\ call_args \in { [ journal |-> f, entry |-> NewEntry, io |-> io ] :
                          f \in LogFiles, io \in IoOutcomes }
    /\ call_ret = [ added |-> FALSE, add_raised |-> FALSE, journal |-> call_args.journal,
                    get_raised |-> FALSE, entries |-> << >> ]
    /\ ProgramIdle

CallAddEntry ==
    /\ call_pc = "called"
    /\ LET r == add_entry(call_args.journal, call_args.entry, call_args.io) IN
       call_ret' = [ call_ret EXCEPT !.added = TRUE, !.add_raised = r.raised,
                                     !.journal = r.journal ]
    /\ call_pc' = "added"
    /\ UNCHANGED << call_args, transferVars, detectVars >>

\* get_entries for the day of the journal, before or after an add_entry
CallGetEntries ==
    /\ call_pc \in { "called", "added" }
    /\ LET r == get_entries(call_ret.journal,
                            IF call_args.io = "read_error" THEN "read_error" ELSE "ok") IN
       call_ret' = [ call_ret EXCEPT !.get_raised = r.raised, !.entries = r.entries ]
    /\ call_pc' = "got"
    /\ UNCHANGED << call_args, transferVars, detectVars >>

NextLogger ==
    \/ CallAddEntry
    \/ CallGetEntries

SpecLogger == InitLogger /\ [][NextLogger]_vars

\* the earlier contents of a journal file, empty when the file is missing
\* or cannot be parsed into a list
EarlierContents(j) == IF j.kind = "list" THEN j.entries ELSE << >>

AppendedToJournal ==
    /\ ~call_ret.add_raised
    /\ call_ret.journal = ListFile(Append(EarlierContents(call_args.journal), call_args.entry))
    /\ call_pc = "got" =>
          /\ ~call_ret.get_raised
          /\ call_ret.entries = Append(EarlierContents(call_args.journal), call_args.entry)

\* C19: with a single writer and a file system that works, after add_entry
\* the day's journal is its earlier contents (empty when the file was missing
\* or corrupt) followed by the new entry, and get_entries for that day
\* returns them all with the new entry last.
C19_AddEntryAppendsOnly ==
    (call_ret.added /\ call_args.io = "ok") => AppendedToJournal

\* the part of C19 that the code keeps: journals that are missing, not
\* JSON, or a list of complete records
C19_ForJournalsOfCompleteRecords ==
    ( /\ call_ret.added
      /\ call_args.io = "ok"
      /\ call_args.journal.kind \in { "absent", "corrupt", "list" }
      /\ \A i \in 1..Len(call_args.journal.entries) :
             DOMAIN call_args.journal.entries[i] = EntryFields )
    => AppendedToJournal

\* the journal file cannot be parsed into a list of entries
Unparsable(j) ==
    \/ j.kind \in { "corrupt", "nonlist", "null" }
    \/ /\ j.kind = "list"
       /\ \E i \in 1..Len(j.entries) : DOMAIN j.entries[i] # EntryFields

\* C20: get_entries returns an empty list and never raises when the journal
\* file of the date is absent or cannot be parsed into a list of entries
\* (invalid JSON, a non-list value, records with missing or unexpected
\* fields).
C20_GetEntriesSwallowsCorruption ==
    ( /\ call_pc = "got"
      /\ ~call_ret.added
      /\ call_args.io = "ok"
      /\ (call_args.journal.kind = "absent" \/ Unparsable(call_args.journal)) )
    => (~call_ret.get_raised /\ call_ret.entries = << >>)

\* the part of C20 that the code keeps: an absent file, invalid JSON and an
\* empty JSON object give the empty list
C20_AbsentOrUndecodable ==
    ( /\ call_pc = "got"
      /\ ~call_ret.added
      /\ call_args.io = "ok"
      /\ call_args.journal.kind \in { "absent", "corrupt", "nonlist" } )
    => (~call_ret.get_raised /\ call_ret.entries = << >>)

-----------------------------------------------------------------------------
(* DeviceManager._get_mount_point on its own *)

\* lines of "gio info" output a run reads
MaxInfoLines == 2
\* directories a glob of one mount root matches
MaxMatches == 1

\* directories that gio info or a glob may name, the synthesized gvfs path
\* of the serial, and the /tmp/amtt_<serial> directory of an adb device
MountPaths == { "P1", "P2" }

GvfsPath == "gvfs/mtp:host=serial"

TmpDir == "/tmp/amtt_serial"

\* a line of gio info: holds "local path:" or not
InfoLines ==
    { [ local |-> FALSE, path |-> "" ] }
        \cup { [ local |-> TRUE, path |-> p ] : p \in MountPaths }

\* what one call meets: the transport of the entry, how the mkdir of the adb
\* directory ends, how gio info ends and what it prints, what the glob
\* matches, and for every path whether Path.exists answers yes, no, or
\* raises (a directory that may not be searched)
MountEnvs ==
    [ transport : { "adb", "mtp" },
      mkdir     : { "ok", "oserror" },
      gio_run   : { "ok", "absent", "exit_nonzero" },
      gio_lines : SeqsUpTo(InfoLines, MaxInfoLines),
      glob      : SeqsUpTo(MountPaths, MaxMatches),
      status    : [ MountPaths \cup { GvfsPath } -> { "yes", "no", "denied" } ] ]

RECURSIVE GioInfoLoop(_, _)
GioInfoLoop(lines, i) ==
    IF i > Len(lines)
    THEN None
    ELSE IF lines[i].local
         THEN Some(lines[i].path)
         ELSE GioInfoLoop(lines, i + 1)

\* _get_gio_mount_point: the path of the first "local path:" line; None when
\* gio fails or prints no such line
get_gio_mount_point(env) ==
    IF env.gio_run # "ok" THEN None ELSE GioInfoLoop(env.gio_lines, 1)

\* _find_in_common_mount_points: the first match of the glob, or None
find_in_common_mount_points(env) ==
    IF env.glob = << >> THEN None ELSE Some(env.glob[1])

\* the list "methods", by name
Methods == << "gio", "scan", "direct" >>

MethodResult(m, env) ==
    CASE m = "gio"    -> get_gio_mount_point(env)
      [] m = "scan"   -> find_in_common_mount_points(env)
      [] m = "direct" -> Some(GvfsPath)

\* a loop body that returns whatever path a method names
Accepts_Unverified(mount_point, env) ==
    mount_point # None

\* the test of the loop body: "mount_point and (mount_point.exists() or
\* transport == 'adb')"; an exists() that raises is caught and the loop
\* continues
Accepts(mount_point, env) ==
    /\ mount_point # None
    /\ \/ env.status[mount_point[1]] = "yes"
       \/ (env.status[mount_point[1]] = "no" /\ env.transport = "adb")

InitMount ==
    /\ call_pc = "called"
    /\ call_args \in MountEnvs
    /\ call_ret = [ tried |-> << >>, raised |-> "none", path |-> None ]
    /\ ProgramIdle

\* the head of _get_mount_point: an adb entry gets its /tmp directory and
\* returns; any other entry goes through the methods
GetMountPointEnter ==
    /\ call_pc = "called"
    /\ IF call_args.transport = "adb"
       THEN /\ call_pc' = "returned"
            /\ call_ret' = IF call_args.mkdir = "ok"
                           THEN [ call_ret EXCEPT !.path = Some(TmpDir) ]
                           ELSE [ call_ret EXCEPT !.raised = "OSError" ]
       ELSE /\ call_pc' = "methods"
            /\ call_ret' = call_ret
    /\ UNCHANGED << call_args, transferVars, detectVars >>

\* one iteration of "for method in methods"
GetMountPointMethod ==
    /\ call_pc = "methods"
    /\ Len(call_ret.tried) < Len(Methods)
    /\ LET m == Methods[Len(call_ret.tried) + 1]
           mount_point == MethodResult(m, call_args)
       IN  IF Accepts(mount_point, call_args)
           THEN /\ call_ret' = [ call_ret EXCEPT !.path = mount_point ]
                /\ call_pc' = "returned"
           ELSE /\ call_ret' = [ call_ret EXCEPT !.tried = Append(@, m) ]
                /\ call_pc' = "methods"
    /\ UNCHANGED << call_args, transferVars, detectVars >>

\* the raise after the loop
GetMountPointRaise ==
    /\ call_pc = "methods"
    /\ Len(call_ret.tried) = Len(Methods)
    /\ call_ret' = [ call_ret EXCEPT !.raised = "DeviceConnectionError" ]
    /\ call_pc' = "returned"
    /\ UNCHANGED << call_args, transferVars, detectVars >>

NextMount ==
    \/ GetMountPointEnter
    \/ GetMountPointMethod
    \/ GetMountPointRaise

SpecMount == InitMount /\ [][NextMount]_vars

\* the k-th method names a path that exists
Yields(k, env) ==
    LET r == MethodResult(Methods[k], env) IN
    r # None /\ env.status[r[1]] = "yes"

\* the methods are passed over in order up to the first that names an
\* existing path, whose path is returned; with none the call raises
\* DeviceConnectionError after all three
FirstExistingWins ==
    LET env == call_args IN
    IF \E k \in 1..Len(Methods) : Yields(k, env)
    THEN LET k == CHOOSE n \in 1..Len(Methods) :
                      Yields(n, env) /\ \A j \in 1..(n - 1) : ~Yields(j, env)
         IN  /\ call_ret.raised = "none"
             /\ call_ret.path = MethodResult(Methods[k], env)
             /\ call_ret.tried = SubSeq(Methods, 1, k - 1)
    ELSE /\ call_ret.raised = "DeviceConnectionError"
         /\ call_ret.path = None
         /\ call_ret.tried = Methods

\* C21: _get_mount_point tries gio info, then the scan of the common mount
\* points, then the synthesized gvfs path, and returns the result of the
\* first method whose target exists; an exception or an empty result moves
\* on to the next method, and DeviceConnectionError is raised exactly when no
\* method yields an existing path.
C21_FirstExistingMethodWins ==
    call_pc = "returned" => FirstExistingWins

\* C21 as the code has it: the above for every entry whose transport is not
\* adb; an adb entry tries no method and gets /tmp/amtt_<serial>, created on
\* the spot, or the OSError of that mkdir
C21_MethodsForMtpTmpDirForAdb ==
    call_pc = "returned" =>
        IF call_args.transport = "adb"
        THEN /\ call_ret.tried = << >>
             /\ IF call_args.mkdir = "ok"
                THEN call_ret.raised = "none" /\ call_ret.path = Some(TmpDir)
                ELSE call_ret.raised = "OSError" /\ call_ret.path = None
        ELSE FirstExistingWins

\* gio info named a directory that does not exist, the scan found one that
\* does: the scan's directory was returned after gio was passed over
C21_Witness ==
    /\ call_pc = "returned"
    /\ call_args.transport = "mtp"
    /\ get_gio_mount_point(call_args) = Some("P1")
    /\ call_args.status["P1"] = "no"
    /\ find_in_common_mount_points(call_args) = Some("P2")
    /\ call_args.status["P2"] = "yes"
    /\ call_ret.tried = << "gio" >>
    /\ call_ret.path = Some("P2")

-----------------------------------------------------------------------------
(* The capacity query of _create_device *)

\* the df call of a construction fails: the tool is absent, exits non-zero,
\* or prints no line of six or more columns after the header
CapacityQueryFailed(env) ==
    \/ env.df \in { "absent", "exit_nonzero" }
    \/ (env.df = "ok" /\ env.df_lines = 0)

SerialOf(device_info) ==
    IF Has(device_info, "serial") THEN device_info["serial"] ELSE "unknown"

\* the device of the i-th entry is in the list, with the placeholder as its
\* only storage unit
BuiltWithPlaceholder(i) ==
    \E k \in 1..Len(devices) :
        /\ devices[k].name = unique_devices[i]["name"]
        /\ devices[k].serial = SerialOf(unique_devices[i])
        /\ Len(devices[k].storage_info) = 1
        /\ devices[k].storage_info[1].capacity = 0

\* C22: a failure of the capacity query (tool missing, non-zero exit, or
\* output with no parsable storage line) is not fatal to _create_device: the
\* Device is constructed with exactly one StorageInfo of capacity 0 and is in
\* the list that get_connected_devices returns.
C22_CapacityFailureGivesPlaceholder ==
    (det_pc \in { "finish", "done" } /\ Len(create_log) = Len(unique_devices)) =>
        \A i \in 1..Len(unique_devices) :
            ( /\ unique_devices[i]["name"] # ""
              /\ SerialOf(unique_devices[i]) # ""
              /\ create_log[i].mount = "ok"
              /\ CapacityQueryFailed(create_log[i]) )
            => /\ BuiltWithPlaceholder(i)
               /\ det_pc = "done" => det_outcome = "returned"

\* the part of C22 that the code keeps: a df that exits non-zero
C22_NonZeroExitGivesPlaceholder ==
    (det_pc \in { "finish", "done" } /\ Len(create_log) = Len(unique_devices)) =>
        \A i \in 1..Len(unique_devices) :
            ( /\ unique_devices[i]["name"] # ""
              /\ SerialOf(unique_devices[i]) # ""
              /\ create_log[i].mount = "ok"
              /\ create_log[i].df = "exit_nonzero" )
            => /\ BuiltWithPlaceholder(i)
               /\ det_pc = "done" => det_outcome = "returned"

\* a run in which the only device found met an absent df, and the call
\* raised with no device
C22_AbsentDfLosesDevice ==
    /\ det_pc = "done"
    /\ det_outcome = "raised_none"
    /\ Len(unique_devices) = 1
    /\ unique_devices[1]["name"] # ""
    /\ create_log[1].mount = "ok"
    /\ create_log[1].df = "absent"

-----------------------------------------------------------------------------
(* The loop of _create_batches, iteration by iteration *)

\* current_batch, current_batch_size and the batches yielded so far when the
\* loop reaches files[i]
AccBefore(i) ==
    BatchLoop(NoBatch, SubSeq(available_files, 1, i - 1), SubSeq(plan_info, 1, i - 1), 1)

\* files[i] was appended to the running batch, nothing was yielded
JoinsRunningBatch(i) ==
    /\ AccBefore(i + 1).yielded = AccBefore(i).yielded
    /\ AccBefore(i + 1).current_batch = Append(AccBefore(i).current_batch, available_files[i])
    /\ AccBefore(i + 1).current_batch_size
           = AccBefore(i).current_batch_size + plan_info[i].size

\* the running batch was yielded and files[i] is alone in the new one
StartsNewBatch(i) ==
    /\ AccBefore(i + 1).yielded = Append(AccBefore(i).yielded, AccBefore(i).current_batch)
    /\ AccBefore(i + 1).current_batch = << available_files[i] >>
    /\ AccBefore(i + 1).current_batch_size = plan_info[i].size

\* the positions of the paths whose size is known and within MAX_BATCH_SIZE
WithinBatchSize ==
    { i \in 1..Len(available_files) :
          plan_info[i].ok /\ plan_info[i].size <= MAX_BATCH_SIZE }

-----------------------------------------------------------------------------
(* Claims about the order of processing and the progress events *)

IsPrefix(s, t) == Len(s) <= Len(t) /\ s = SubSeq(t, 1, Len(s))

\* s can be got from t by leaving entries out
RECURSIVE IsSubsequence(_, _)
IsSubsequence(s, t) ==
    IF s = << >>
    THEN TRUE
    ELSE IF t = << >>
         THEN FALSE
         ELSE IF Head(s) = Head(t)
              THEN IsSubsequence(Tail(s), Tail(t))
              ELSE IsSubsequence(s, Tail(t))

\* the files handled so far, and the files of the events so far
ProcessedFiles == [ i \in 1..Len(copy_log) |-> copy_log[i].path ]

EventFiles == [ i \in 1..Len(progress_events) |-> progress_events[i].current_file ]

\* the files handled so far whose processing got as far as the copy
ReachedCopy ==
    LET reached == SelectSeq(copy_log, LAMBDA e : e.infoOk) IN
    [ i \in 1..Len(reached) |-> reached[i].path ]

\* batches in planner order, files in batch order
ProcessedInPlanOrder == IsPrefix(ProcessedFiles, Flatten(batches))

\* batch index and cumulative bytes never go down, the index stays within
\* 1..total_batches
EventsMonotone ==
    /\ \A i \in 1..Len(progress_events) :
          /\ progress_events[i].current_batch \in 1..progress_events[i].total_batches
          /\ progress_events[i].total_batches = Len(batches)
    /\ \A i, j \in 1..Len(progress_events) :
          i < j => /\ progress_events[i].current_batch <= progress_events[j].current_batch
                   /\ progress_events[i].current_size <= progress_events[j].current_size

\* C24: transfer_files processes batches in planner order and files in order
\* within a batch and emits one progress event per file in that order; over
\* the events the batch index is non-decreasing and within 1..total_batches,
\* the cumulative byte count is non-decreasing and never above the announced
\* total size, and successful_files is a subsequence of the expanded list.
C24_OneOrderedEventPerFile ==
    /\ ProcessedInPlanOrder
    /\ IsSubsequence(result.successful_files, available_files)
    /\ progress_callback # "none" =>
          /\ pc # "progress" => EventFiles = ProcessedFiles
          /\ EventsMonotone
          /\ \A i \in 1..Len(progress_events) :
                progress_events[i].current_size <= progress_events[i].total_size

\* the part of C24 that the code keeps: the order of processing, one event
\* for every file whose processing reached the copy, the monotone batch
\* index and byte count, and the subsequence
C24_OrderedEventPerFileThatReachedCopy ==
    /\ ProcessedInPlanOrder
    /\ IsSubsequence(result.successful_files, available_files)
    /\ progress_callback # "none" =>
          /\ pc # "progress" => EventFiles = ReachedCopy
          /\ EventsMonotone

\* a finished run with a callback in which a file was handled, and counted
\* as failed, without any event
C24_FileWithoutEvent ==
    /\ pc = "done"
    /\ progress_callback = "quiet"
    /\ \E i \in 1..Len(copy_log) :
          /\ ~copy_log[i].infoOk
          /\ \A k \in 1..Len(progress_events) :
                progress_events[k].current_file # copy_log[i].path

\* an event whose cumulative byte count is above the announced total
C24_BytesAboveTotal ==
    \E i \in 1..Len(progress_events) :
        progress_events[i].current_size > progress_events[i].total_size

-----------------------------------------------------------------------------
(* Claims about the two file lists of the TransferResult *)

\* the number of times x occurs in s
Count(s, x) == Cardinality({ i \in 1..Len(s) : s[i] = x })

\* the files that the plan holds exactly once
PlannedOnce ==
    { f \in { Flatten(batches)[i] : i \in 1..Len(Flatten(batches)) } :
          Count(Flatten(batches), f) = 1 }

RecordedAtMostOnce(f) ==
    Count(result.successful_files, f) + Count(result.failed_files, f) <= 1

\* C25: successful_files and failed_files are disjoint and no file processed
\* once appears twice in either list, whatever fails during the run,
\* including a progress callback that raises after the file's copy outcome
\* was recorded.
C25_ProcessedOnceRecordedOnce ==
    \A f \in PlannedOnce : RecordedAtMostOnce(f)

\* the part of C25 that the code keeps: runs whose callback, if any, returns
C25_WhenCallbackReturns ==
    progress_callback # "raising" => \A f \in PlannedOnce : RecordedAtMostOnce(f)

\* a finished run in which a file planned once, copied and removed from the
\* device is in successful_files and in failed_files
C25_CopiedFileAlsoFailed ==
    /\ pc = "done"
    /\ \E f \in PlannedOnce :
          /\ f \in dest
          /\ f \notin device
          /\ Count(result.successful_files, f) = 1
          /\ Count(result.failed_files, f) = 1

\* the entries of a list, as a set
Range(s) == { s[i] : i \in 1..Len(s) }

\* C26: every file of the expanded file set is accounted for in the result:
\* it is in successful_files or in failed_files, and the two lists together
\* are as long as the expanded list, also for files whose metadata lookup
\* fails during batch planning.
C26_EveryExpandedFileAccounted ==
    pc \in { "log", "done" } =>
        /\ Range(available_files)
               \subseteq Range(result.successful_files) \cup Range(result.failed_files)
        /\ Len(result.successful_files) + Len(result.failed_files) = Len(available_files)

\* the part of C26 that the code keeps: the files that got into a batch
C26_EveryPlannedFileAccounted ==
    pc \in { "log", "done" } =>
        /\ Range(Flatten(batches))
               \subseteq Range(result.successful_files) \cup Range(result.failed_files)
        /\ Len(result.successful_files) + Len(result.failed_files) >= Len(Flatten(batches))

\* a finished run over the Camera folder, no transient failure, in which a
\* listed file is in neither list and still on the device
C26_ListedFileInNoList ==
    /\ pc = "done"
    /\ glitches = 0
    /\ source_paths = << CAMERA >>
    /\ F_CACHE \in Range(available_files)
    /\ F_CACHE \notin Range(result.successful_files) \cup Range(result.failed_files)
    /\ F_CACHE \in device
    /\ F_CACHE \notin dest

-----------------------------------------------------------------------------
(* Empty batches *)

\* C27: _create_batches never yields an empty batch, for every input list
\* and every pair of bounds MAX_BATCH_SIZE >= 0 and MAX_FILES_PER_BATCH >= 0,
\* so there are never more batches, and delays between batches, than files.
C27_NoEmptyBatch ==
    pc = "batch_done" =>
        /\ \A k \in 1..Len(batches) : batches[k] # << >>
        /\ Len(batches) <= Len(available_files)

\* the part of C27 that the code keeps: a count bound of at least one
C27_NoEmptyBatchWhenCountPositive ==
    (pc = "batch_done" /\ MAX_FILES_PER_BATCH >= 1) =>
        /\ \A k \in 1..Len(batches) : batches[k] # << >>
        /\ Len(batches) <= Len(available_files)

\* a plan for one file under a count bound of zero: an empty batch, then the
\* file's batch
C27_EmptyBatchFirst ==
    /\ pc = "batch_done"
    /\ MAX_FILES_PER_BATCH = 0
    /\ Len(available_files) = 1
    /\ batches = << << >>, << available_files[1] >> >>

-----------------------------------------------------------------------------
(* Path safety of the files a run touches *)

\* the device paths a run has removed so far
Deleted == AllPaths \ device

\* C28: every file that transfer_files copies or deletes has a device path
\* for which is_safe_path is true; a child of a safe source folder whose own
\* path is unsafe is never copied and never deleted.
C28_OnlySafePathsCopiedOrDeleted ==
    /\ \A f \in dest \cup Deleted : is_safe_path(f)
    /\ \A i \in 1..Len(copy_log) :
          (copy_log[i].infoOk /\ copy_log[i].copyOk) => is_safe_path(copy_log[i].path)
    /\ \A f \in Range(available_files) :
          ~is_safe_path(f) => (f \in device /\ f \notin dest)

\* a finished run over the Camera folder with deletion: a.jpg was copied and
\* removed, while the listed cache_1.jpg was neither copied nor removed
C28_Witness ==
    /\ pc = "done"
    /\ delete_source
    /\ source_paths = << CAMERA >>
    /\ F_CACHE \in Range(available_files)
    /\ ~is_safe_path(F_CACHE)
    /\ F_A \in dest /\ F_A \in Deleted
    /\ F_CACHE \notin dest /\ F_CACHE \in device

-----------------------------------------------------------------------------
(* Device.__init__ and the persisted device configuration *)

\* names and serials handed to the constructor
DeviceNames == { "", "Pixel 7", "Pixel_7" }

DeviceSerials == { "", "S1" }

\* str.strip().replace(" ", "_") on the names and serials above
CleanId(text) ==
    CASE text = "Pixel 7" -> "Pixel_7"
      [] OTHER            -> text

\* ConfigManager.get_device_id: f"{model}_{serial}"
get_device_id(serial, model) == << CleanId(model), "_", CleanId(serial) >>

\* device ids a config file of the runs may hold already
KnownIds == { get_device_id("S1", "Pixel 7"), get_device_id("S9", "Other") }

\* ConfigManager.get_device_config on the records loaded from the file:
\* [device_configs, config_file]; a new device gets a default record and the
\* records are saved, a failing save is swallowed
get_device_config(configs, file, serial, model, saveOk) ==
    LET device_id == get_device_id(serial, model) IN
    IF device_id \in configs
    THEN [ device_configs |-> configs, config_file |-> file ]
    ELSE [ device_configs |-> configs \cup { device_id },
           config_file |-> IF saveOk THEN configs \cup { device_id } ELSE file ]

InitDevice ==
    /\ call_pc = "called"
    /\ call_args \in [ name : DeviceNames, serial : DeviceSerials,
                       storage_info : { << >>, << [ id |-> 0, name |-> "Device Storage",
                                                    capacity |-> 0 ] >> },
                       config_file : SUBSET KnownIds,
                       saveOk : BOOLEAN ]
    /\ call_ret = [ config_file |-> call_args.config_file, raised |-> FALSE ]
    /\ ProgramIdle

\* lines 33-48: the fields, the managers (ConfigManager() loads the file) and
\* the device configuration
DeviceInitConfig ==
    /\ call_pc = "called"
    /\ call_ret' = [ call_ret EXCEPT !.config_file =
                        get_device_config(call_args.config_file, call_args.config_file,
                                          call_args.serial, call_args.name,
                                          call_args.saveOk).config_file ]
    /\ call_pc' = "configured"
    /\ UNCHANGED << call_args, transferVars, detectVars >>

\* lines 50-54: the validation
DeviceInitValidate ==
    /\ call_pc = "configured"
    /\ call_ret' = [ call_ret EXCEPT !.raised =
                        Device_init(call_args.name, call_args.serial,
                                    call_args.storage_info).raised ]
    /\ call_pc' = "returned"
    /\ UNCHANGED << call_args, transferVars, detectVars >>

NextDevice ==
    \/ DeviceInitConfig
    \/ DeviceInitValidate

SpecDevice == InitDevice /\ [][NextDevice]_vars

\* C29: a Device construction that fails validation (empty name, empty
\* serial or no storage unit) has no lasting effect: the persisted
\* per-device configuration is the same after it as before it, no device
\* record was created or saved.
C29_FailedConstructionLeavesConfig ==
    (call_pc = "returned" /\ call_ret.raised) =>
        call_ret.config_file = call_args.config_file

\* the part of C29 that the code keeps: the records that were there stay,
\* and at most the record of the rejected device is added
C29_FailedConstructionKeepsOldRecords ==
    (call_pc = "returned" /\ call_ret.raised) =>
        /\ call_args.config_file \subseteq call_ret.config_file
        /\ call_ret.config_file
               \subseteq call_args.config_file
                             \cup { get_device_id(call_args.serial, call_args.name) }

\* a construction rejected for its empty serial that left a record "Pixel_7_"
\* in the saved configuration
C29_RejectedDeviceSaved ==
    /\ call_pc = "returned"
    /\ call_ret.raised
    /\ call_args.serial = ""
    /\ call_args.config_file = { }
    /\ call_ret.config_file = { << "Pixel_7", "_", "" >> }

-----------------------------------------------------------------------------
(* TransferLogger.add_entry across a change of date *)

\* the two calendar days a call may see
Days == { 1, 2 }

\* a record written on day d
DayEntry(d, n) ==
    [ timestamp |-> d, source_dir |-> F_C, successful_files |-> << F_C >>,
      failed_files |-> << >>, failed_paths |-> << >>, total_size |-> n,
      delete_source |-> FALSE ]

\* the journal files of the two days when add_entry is called on day 1: the
\* first day's file as earlier calls left it, the second day's file absent
\* or begun by another process after midnight
DayJournals ==
    { << j1, j2 >> :
          j1 \in { AbsentFile, CorruptFile }
                     \cup { ListFile(es) :
                               es \in SeqsUpTo({ DayEntry(1, 1), DayEntry(1, 2) }, MaxEntries) },
          j2 \in { AbsentFile, ListFile(<< DayEntry(2, 1) >>) } }

InitLogDays ==
    /\ call_pc = "called"
    /\ call_args \in { [ journals |-> js, entry |-> DayEntry(1, 3), io |-> io ] :
                          js \in DayJournals, io \in IoOutcomes }
    /\ call_ret = [ journals |-> call_args.journals, today |-> 1, load_day |-> 1,
                    logs |-> << >>, raised |-> FALSE ]
    /\ ProgramIdle

\* lines 68-72: _load_logs reads the file that _get_log_file names now, the
\* entry is appended to the list
AddEntryLoad ==
    /\ call_pc = "called"
    /\ LET loaded == load_logs(call_ret.journals[call_ret.today], call_args.io) IN
       IF loaded.raised \/ ~loaded.islist
       THEN /\ call_ret' = [ call_ret EXCEPT !.raised = TRUE ]
            /\ call_pc' = "returned"
       ELSE /\ call_ret' = [ call_ret EXCEPT !.logs = Append(loaded.logs, call_args.entry),
                                            !.load_day = call_ret.today ]
            /\ call_pc' = "loaded"
    /\ UNCHANGED << call_args, transferVars, detectVars >>

\* midnight passes between the two calls of _get_log_file
DateChanges ==
    /\ call_pc = "loaded"
    /\ call_ret.today = 1
    /\ call_ret' = [ call_ret EXCEPT !.today = 2 ]
    /\ UNCHANGED << call_pc, call_args, transferVars, detectVars >>

\* line 75: _save_logs writes the file that _get_log_file names now
AddEntrySave ==
    /\ call_pc = "loaded"
    /\ LET saved == save_logs(call_ret.journals[call_ret.today], call_ret.logs,
                              call_args.io) IN
       call_ret' = [ call_ret EXCEPT !.journals[call_ret.today] = saved.journal,
                                     !.raised = saved.raised ]
    /\ call_pc' = "returned"
    /\ UNCHANGED << call_args, transferVars, detectVars >>

NextLogDays ==
    \/ AddEntryLoad
    \/ DateChanges
    \/ AddEntrySave

SpecLogDays == InitLogDays /\ [][NextLogDays]_vars

\* the days whose journal file differs from what it was at the call
ChangedDays == { d \in Days : call_ret.journals[d] # call_args.journals[d] }

\* the journal of day d holds its earlier entries, then the new entry, and
\* nothing written on another day
HoldsOwnDay(d) ==
    /\ call_ret.journals[d].kind = "list"
    /\ call_ret.journals[d].entries
           = Append(call_args.journals[d].entries, call_args.entry)
    /\ \A i \in 1..Len(call_args.journals[d].entries) :
           call_ret.journals[d].entries[i].timestamp = d

\* C30: add_entry changes the journal of exactly one calendar day, and that
\* journal afterwards holds only entries added on that day: also when the
\* date changes between the load and the save of one call, no entry of one
\* day's journal is copied into another day's journal and no entry of the
\* written journal is lost.
C30_OneDayJournalOnly ==
    (call_pc = "returned" /\ ~call_ret.raised) =>
        /\ Cardinality(ChangedDays) = 1
        /\ \A d \in ChangedDays : HoldsOwnDay(d)

\* the part of C30 that the code keeps: a call whose load and save fall on
\* the same day
C30_WhenDateUnchanged ==
    (call_pc = "returned" /\ ~call_ret.raised /\ call_ret.today = call_ret.load_day) =>
        /\ ChangedDays = { call_ret.today }
        /\ HoldsOwnDay(call_ret.today)

\* a call over midnight: the second day's journal lost the entry it held and
\* now holds the first day's entries followed by the new one
C30_FirstDayCopiedIntoSecond ==
    /\ call_pc = "returned"
    /\ ~call_ret.raised
    /\ call_args.journals[1] = ListFile(<< DayEntry(1, 1) >>)
    /\ call_args.journals[2] = ListFile(<< DayEntry(2, 1) >>)
    /\ call_ret.journals[1] = call_args.journals[1]
    /\ call_ret.journals[2] = ListFile(<< DayEntry(1, 1), call_args.entry >>)

====
